---- MODULE Spec2Model ----
(***************************************************************************)
(* A model of the Gmail AI Reply Assistant extension.                      *)
(*                                                                         *)
(*  - Spec            the in-page modal controller (src/src/content.js:    *)
(*                    openModal, closeModal, handleKeyDown, handleSubmit)  *)
(*  - SpecFocus       the modal controller with the Tab key                *)
(*  - SpecInject      compose-region discovery and button injection        *)
(*  - SpecInjectFair  the same under the scheduling of the event loop      *)
(*  - SpecBackground  the background message handler and callOpenAI        *)
(*  - SpecImprove     the improve-selection flow of the in-page agent      *)
(*  - SpecSettings    the settings store (src/src/utils/storage.js)        *)
(*  - SpecExport      the modal controller with openModal called directly  *)
(*  - SpecFeedback    the improve flow with the banners' close buttons     *)
(*  - SpecDraft       appendDraft on a compose region                      *)
(*  - SpecPrompt      createPrompt of the background                       *)
(*  - SpecPrefill     the prefill of the modal's talking points            *)
(*  - SpecBanner      showBanner and its closures                          *)
(*  - SpecCompose     getComposeWindows over a changing document           *)
(*  - SpecIcon        updateActionIcon and its overlapping calls           *)
(*                                                                         *)
(* Every asynchronous function is cut at its awaits: one action per        *)
(* segment between two suspension points, as the single-threaded event     *)
(* loop runs it.  0 stands for null throughout.                            *)
(***************************************************************************)
EXTENDS Integers, Sequences, FiniteSets, Bags, TLC

\* ------------------------------------------------------------------ bounds
NRegions == 2        \* compose regions of the document
MaxCalls == 3        \* openModal and handleSubmit calls of one run

Regions == 1..NRegions
OpenIds == 1..MaxCalls
SubmitIds == 1..MaxCalls
Hosts == 1..MaxCalls
NCompose == 2        \* message-body regions the host page can show
MaxPending == 2      \* mutation records queued for one observer callback
MaxHashTimers == 1   \* hashchange timers pending at the same time

MaxMsgs == 2         \* messages delivered to the background handler in one run
MaxImprove == 2      \* improve requests of one run
MaxSets == 2         \* setSettings calls of one run
MaxRegionText == 2   \* characters in a compose region before a draft is appended
MaxDraft == 2        \* characters of a draft
MaxTemplate == 2     \* pieces of a prompt template
MaxArg == 1          \* pieces of a text substituted into a template
MaxSelection == 3    \* pieces of the page selection read by openModal
MaxBanners == 3      \* showBanner calls of one run
MaxElements == 2     \* editable elements in the document
MaxUpdates == 3      \* updateActionIcon calls of one run

ComposeIds == 1..NCompose

VARIABLES
  \* ---- modal controller (content.js:345-813)
  docHosts,              \* <div id="ai-modal-host"> children of document.body, in document order
  modalHost,             \* let modalHost
  shadowRoot,            \* let shadowRoot (named by the host it is attached to)
  currentComposeWindow,  \* let currentComposeWindow
  ui,                    \* per shadow root: template copies, disabled buttons, spinner, error text
  opens,                 \* the openModal calls: where each one is suspended
  submits,               \* the handleSubmit calls: where each one is suspended
  clipboard,             \* the system clipboard (0: untouched by the extension)
  nCalls,                \* openModal and handleSubmit calls made so far
  focus,                 \* the element holding keyboard focus: a position in a shadow root, or the page
  lastEvt,               \* what the last handler that ran did (history variable)
  \* ---- compose discovery and button injection (content.js:1001-1217, 1575-1595)
  rootOf,          \* region -> its compose container (named by its first region)
  rootType,        \* container -> what the locators see of it (RootTypes)
  present,         \* the regions in the document
  marker,          \* container -> dataset.aiButtonsInjected === 'true'
  replyButtons,    \* container -> number of .ai-reply-button elements in it
  improveButtons,  \* container -> number of .ai-improve-button elements in it
  pending,         \* mutation records not yet delivered (each the region of its first node)
  startupPending,  \* the 500 ms start-up timer has not fired yet
  hashTimers,      \* pending hashchange timers
  observing,       \* setupMutationObserver has run
  injEvt,          \* what the last injection handler did (history variable)
  \* ---- background service worker (dist/background.js)
  msgs,            \* the suspended handleMessage calls (a bag): where each one is, and its locals
  iconState,       \* let iconState
  badge,           \* what the toolbar icon shows (the branch updateActionIcon last took)
  errorTimeout,    \* the 2 s timers of 'inactive' (a bag): armed or still to be armed by an
                   \* updateActionIcon call in progress, and whether let errorTimeout names it
  nMsgs,           \* messages delivered so far
  bgEvt,           \* the last message handled to its end (history variable)
  \* ---- improve-selection flow of the in-page agent (content.js:927-999, 1224-1532, 1627-1806)
  pageSel,            \* where the user's selection and focus are (SelKinds)
  lastSelectionRange, \* let lastSelectionRange: "none", or where the cloned range lies
  lastInputSelection, \* let lastInputSelection is set
  capture,            \* the flow whose trigger captured what the two hold, and the results
                      \* that have used it (history variable)
  currentSpinner,     \* let currentSpinner: 0, or the flow whose trigger put the spinner
                      \* element into the document
  improvingBanners,   \* the flows whose 'Improving text...' banner is in the document
  currentOverlay,     \* let currentOverlay: 0, or the text the overlay shows
  improving,          \* IMPROVE_TEXT messages without a response yet (a bag)
  finishing,          \* handleImproveTextResult calls suspended at their SET_ICON_STATE message
  nImp,               \* improve requests made so far
  impEvt,             \* what the last improve handler did (history variable)
  \* ---- settings store (utils/storage.js)
  store,              \* the record under 'ai-reply.settings' in chrome.storage.sync: field -> value
  setCalls,           \* setSettings calls suspended at their storage write (a bag)
  nSets,              \* setSettings calls made so far
  settingsEvt,        \* what the last settings step did (history variable)
  \* ---- text handling (content.js:135-212)
  regionText,         \* textContent of the editable compose region
  caret,              \* where the region's collapsed selection is: characters before it
  draftEvt,           \* what the last appendDraft call did (history variable)
  \* ---- prompt construction (dist/background.js:144-152)
  template,           \* settings.promptTemplate
  prompt,             \* the prompt createPrompt returned last
  promptEvt,          \* what the last createPrompt call was given (history variable)
  \* ---- prefill of the talking points (content.js:381-385, 692-704, 786-793)
  selection,          \* window.getSelection().toString()
  talkingPoints,      \* value of textarea#ai-talking-points
  prefillEvt,         \* the selection the last opened modal read (history variable)
  \* ---- banners (content.js:226-343)
  bannerContainer,    \* region -> its .ai-reply-banner-container element, 0 without one
  banners,            \* the banners created so far: region, container, shown, timer
  bannerEvt,          \* what the last banner step did (history variable)
  \* ---- compose-window discovery (content.js:8-71)
  elements,           \* the document's editable elements, in document order
  composeEvt,         \* what the last getComposeWindows call returned (history variable)
  \* ---- the action icon (dist/background.js:17-70)
  action,             \* what chrome.action shows: badge text, badge colour, title
  updates,            \* the updateActionIcon calls suspended at an await
  nUpdates            \* updateActionIcon calls made so far

modalVars == <<docHosts, modalHost, shadowRoot, currentComposeWindow, ui, opens,
               submits, focus, lastEvt>>

injVars == <<rootOf, rootType, present, marker, replyButtons, improveButtons, pending,
             startupPending, hashTimers, observing, injEvt>>

bgVars == <<msgs, iconState, badge, errorTimeout, nMsgs, bgEvt>>

impVars == <<pageSel, lastSelectionRange, lastInputSelection, capture, currentSpinner, currentOverlay,
             improvingBanners, improving, finishing, nImp, impEvt>>

setVars == <<store, setCalls, nSets, settingsEvt>>

txtVars == <<regionText, caret, draftEvt, template, prompt, promptEvt,
             selection, talkingPoints, prefillEvt>>

banVars == <<bannerContainer, banners, bannerEvt>>

domVars == <<elements, composeEvt>>

icoVars == <<action, updates, nUpdates>>

\* What the modal controller never touches.
notModal == <<clipboard, injVars, bgVars, impVars, setVars, txtVars, banVars, domVars, icoVars>>

\* What the injector never touches.
notInject == <<modalVars, nCalls, clipboard, bgVars, impVars, setVars, txtVars, banVars, domVars, icoVars>>

\* What the background service worker never touches.
notBackground == <<modalVars, nCalls, clipboard, injVars, impVars, setVars, txtVars, banVars, domVars, icoVars>>

\* What the improve flow never touches.
notImprove == <<modalVars, nCalls, injVars, bgVars, setVars, txtVars, banVars, domVars, icoVars>>

\* What the settings store never touches.
notSettings == <<modalVars, nCalls, clipboard, injVars, bgVars, impVars, txtVars, banVars, domVars, icoVars>>

\* What the text functions never touch.
notText == <<modalVars, nCalls, clipboard, injVars, bgVars, impVars, setVars, banVars, domVars, icoVars>>

\* What showBanner and its closures never touch.
notBanner == <<modalVars, nCalls, clipboard, injVars, bgVars, impVars, setVars, txtVars, domVars, icoVars>>

\* What getComposeWindows never touches.
notDom == <<modalVars, nCalls, clipboard, injVars, bgVars, impVars, setVars, txtVars, banVars,
           icoVars>>

\* What updateActionIcon and its callers' assignments of iconState never touch.
notIcon == <<modalVars, nCalls, clipboard, injVars, msgs, badge, nMsgs, bgEvt, impVars, setVars,
            txtVars, banVars, domVars>>

vars == <<modalVars, nCalls, clipboard, injVars, bgVars, impVars, setVars, txtVars, banVars, domVars, icoVars>>

\* ------------------------------------------------------------ modal: helpers
NoUI == [copies |-> 0, disabled |-> FALSE, spinner |-> FALSE, error |-> FALSE]

NoEvt == [act |-> "none", sub |-> FALSE, closed |-> FALSE, origin |-> 0,
          session |-> 0, ins |-> 0, ban |-> 0, bt |-> "none", shift |-> FALSE, from |-> 0,
          late |-> FALSE, closedHost |-> 0]

Evt(a) == [NoEvt EXCEPT !.act = a]

\* A finished call keeps nothing: its locals are gone and its slot is free again.
DoneOpen == [pc |-> "idle", trig |-> 0]

DoneSubmit == [pc |-> "idle", session |-> 0, origin |-> 0]

InDoc(h) == \E i \in 1..Len(docHosts) : docHosts[i] = h

RemoveHost(s, h) == SelectSeq(s, LAMBDA x : x # h)

\* The modal the user sees and types into: the last host in document order
\* whose shadow root holds the template (an empty shadow root renders nothing).
Populated == {i \in 1..Len(docHosts) : ui[docHosts[i]].copies > 0}

TopHost == IF Populated = {} THEN 0
           ELSE docHosts[CHOOSE i \in Populated : \A j \in Populated : j <= i]

\* A handleSubmit call between its toggleSpinner(true) and the handling of its response.
InFlight(s) == submits[s].pc \in {"settings", "generate"}

\* The modal session of shadow root h is in Submitting.
Submitting(h) == \E s \in SubmitIds : InFlight(s) /\ submits[s].session = h

NextOpen == CHOOSE c \in OpenIds : opens[c].pc = "idle" /\ \A d \in OpenIds : d < c => opens[d].pc # "idle"

\* The element document.createElement makes: one no live reference names.
LiveHosts == {docHosts[i] : i \in 1..Len(docHosts)} \cup {submits[s].session : s \in SubmitIds}

NewHost == CHOOSE h \in Hosts \ LiveHosts : \A g \in Hosts \ LiveHosts : h <= g

NextSubmit == CHOOSE s \in SubmitIds : submits[s].pc = "idle" /\ \A d \in SubmitIds : d < s => submits[d].pc # "idle"

CanOpen == nCalls < MaxCalls

CanSubmit == nCalls < MaxCalls

\* ------------------------------------------------- modal: the code's functions
\* toggleSpinner(show) on the shadow root sr: no effect without a shadow root, and
\* none when the shadow root holds no template (querySelector finds nothing).
toggleSpinner(u, sr, show) ==
  IF sr = 0 \/ u[sr].copies = 0 THEN u
  ELSE [u EXCEPT ![sr].spinner = show, ![sr].disabled = show]

\* ------------------------------------------------------ modal: keyboard focus
\* Focus is on the page (outside every modal) or on an element of a shadow root.
\* The template holds, in document order, the textarea, the Cancel button and the
\* Generate button; the elements of a shadow root are numbered in document
\* order, three for each copy of the template.
OnPage == [host |-> 0, pos |-> 0]

TextareaPos == 1

SubmitPos == 3

\* What 'textarea, button, [href], input, select, [tabindex]...' selects in the shadow
\* root h: every textarea and button, the disabled ones included.
focusableElements(u, h) == 1..(3 * u[h].copies)

\* The elements the browser can give focus to: a disabled button takes none.
\* toggleSpinner disables the buttons querySelector finds, those of the first copy.
Tabbable(u, h) == {p \in focusableElements(u, h) : ~(u[h].disabled /\ p \in {2, 3})}

\* element.focus(): no effect on an element that cannot take focus.
focusElement(f, dh, u, h, p) ==
  IF h # 0 /\ (\E i \in 1..Len(dh) : dh[i] = h) /\ p \in Tabbable(u, h)
  THEN [host |-> h, pos |-> p] ELSE f

\* The browser's focus fix-up: an element that left the document or became
\* disabled loses focus to the page.
FocusFixup(f, dh, u) == focusElement(OnPage, dh, u, f.host, f.pos)

\* The browser's own Tab navigation from position p of shadow root h: the next
\* (previous) element that can take focus, or out of the modal when there is none.
defaultTab(u, h, p, shift) ==
  LET ahead == {q \in Tabbable(u, h) : IF shift THEN q < p ELSE q > p} IN
    IF ahead = {} THEN OnPage
    ELSE [host |-> h,
          pos |-> CHOOSE q \in ahead : \A r \in ahead : IF shift THEN r <= q ELSE q <= r]

\* displayErrorInModal(message): shows the error in the shadow root and hides the
\* spinner; without an error element it falls back to alert().
displayErrorInModal(u, sr) ==
  IF sr = 0 THEN u
  ELSE IF u[sr].copies > 0 THEN toggleSpinner([u EXCEPT ![sr].error = TRUE], sr, FALSE)
  ELSE u

\* closeModal(): removes modalHost from the document and clears the three references.
\* Only the host the variable modalHost names is removed.
closeModalHosts(dh, mh) == IF mh # 0 THEN RemoveHost(dh, mh) ELSE dh

closeModalUI(u, mh) == IF mh # 0 THEN [u EXCEPT ![mh] = NoUI] ELSE u

closeModal ==
  /\ docHosts' = closeModalHosts(docHosts, modalHost)
  /\ modalHost' = 0
  /\ shadowRoot' = 0
  /\ currentComposeWindow' = 0

\* A guard on the variable modalHost instead of the document.
modalHostSet == modalHost # 0

\* The guard of openModal: "Prevent multiple modals".
modalAlreadyOpen == Len(docHosts) > 0

\* ------------------------------------------------------- modal: openModal
\* openModal(triggeringComposeWindow), up to its first await (the settings lookup).
openModalStart(r, how) ==
  /\ CanOpen
  /\ LET c == NextOpen IN
       IF modalAlreadyOpen
       THEN /\ opens' = [opens EXCEPT ![c] = DoneOpen]
            /\ lastEvt' = [Evt("OpenRejected") EXCEPT !.origin = r]
       ELSE /\ opens' = [opens EXCEPT ![c] = [pc |-> "settings", trig |-> r]]
            /\ lastEvt' = [Evt(how) EXCEPT !.origin = r]
  /\ nCalls' = nCalls + 1
  /\ UNCHANGED <<docHosts, modalHost, shadowRoot, currentComposeWindow, ui, submits,
                 focus, notModal>>

\* A click on the injected reply button of region r (createAIReplyButton's listener).
\* The dimming overlay of a shown modal covers the page, so the button is
\* reachable only while no modal is shown.
ClickReplyButton(r) == TopHost = 0 /\ openModalStart(r, "ClickReply")

\* TRIGGER_GENERATE from the keyboard command: triggerGenerateReply resolves the
\* active compose region r and calls openModal(r).
TriggerGenerate(r) == openModalStart(r, "TriggerGenerate")

\* A failure report that always goes to a banner.
reportByBanner(trig) == "error"

\* How openModal reports a failed settings lookup: an error banner on the
\* triggering region, window.alert without one.
reportOpenError(trig) == IF trig # 0 THEN "error" ELSE "alert"

\* openModal() called without a triggering region (the function is exported and
\* its tests call it so).
CallOpenModal == openModalStart(0, "CallOpenModal")

\* openModal resumes with the settings response: on failure a banner on the
\* triggering region and return false; otherwise the host element is created,
\* appended to the body and openModal awaits the modal's HTML and CSS.
OpenSettingsResponse(c, ok) ==
  /\ opens[c].pc = "settings"
  /\ IF ok
     THEN /\ docHosts' = Append(docHosts, NewHost)
          /\ modalHost' = NewHost
          /\ shadowRoot' = NewHost
          /\ opens' = [opens EXCEPT ![c].pc = "fetch"]
          /\ lastEvt' = [Evt("HostCreated") EXCEPT !.origin = opens[c].trig]
     ELSE /\ opens' = [opens EXCEPT ![c] = DoneOpen]
          /\ lastEvt' = [Evt("OpenSettingsFailed") EXCEPT !.origin = opens[c].trig,
                            !.ban = opens[c].trig, !.bt = reportOpenError(opens[c].trig)]
          /\ UNCHANGED <<docHosts, modalHost, shadowRoot>>
  /\ UNCHANGED <<currentComposeWindow, ui, submits, focus, notModal, nCalls>>

\* openModal resumes with the fetched resources.  It fills the shadow root the
\* VARIABLE shadowRoot names, attaches the listeners, focuses the textarea and
\* stores the triggering region.  A failed fetch (fetchText returns '') or a null
\* shadowRoot throws into the catch block: banner, closeModal(), return false.
OpenFetchResponse(c, ok) ==
  /\ opens[c].pc = "fetch"
  /\ IF ok /\ shadowRoot # 0
     THEN /\ ui' = [ui EXCEPT ![shadowRoot].copies = @ + 1]
          /\ currentComposeWindow' = opens[c].trig
          /\ opens' = [opens EXCEPT ![c] = DoneOpen]
          /\ lastEvt' = [Evt("Opened") EXCEPT !.origin = opens[c].trig,
                            !.session = shadowRoot]
          /\ UNCHANGED <<docHosts, modalHost, shadowRoot>>
     ELSE /\ closeModal
          /\ ui' = closeModalUI(ui, modalHost)
          /\ opens' = [opens EXCEPT ![c] = DoneOpen]
          /\ lastEvt' = [Evt("OpenFailed") EXCEPT !.origin = opens[c].trig,
                            !.ban = opens[c].trig, !.bt = "error", !.closed = (modalHost # 0)]
  /\ focus' = IF ok /\ shadowRoot # 0
              THEN focusElement(focus, docHosts', ui', shadowRoot, TextareaPos)
              ELSE FocusFixup(focus, docHosts', ui')
  /\ UNCHANGED <<submits, notModal, nCalls>>

\* --------------------------------------------- modal: closing by the user
\* The three ways out of the modal the user has.  Each acts on the modal the
\* user sees (TopHost); each handler ends in closeModal(), which works on the
\* module-level references.
userClose(how) ==
  /\ TopHost # 0
  /\ closeModal
  /\ ui' = closeModalUI(ui, modalHost)
  /\ lastEvt' = [Evt(how) EXCEPT !.session = TopHost, !.sub = Submitting(TopHost),
                     !.closed = (modalHost = TopHost)]
  /\ focus' = FocusFixup(focus, docHosts', ui')
  /\ UNCHANGED <<opens, submits, notModal, nCalls>>

\* cancelButton.addEventListener('click', closeModal): a disabled button
\* dispatches no click.
ClickCancel == TopHost # 0 /\ ~ui[TopHost].disabled /\ userClose("Cancel")

\* handleKeyDown: Escape calls closeModal() whenever shadowRoot is set.
PressEscape == TopHost # 0 /\ shadowRoot # 0 /\ userClose("Escape")

\* The overlay's click listener: event.target === overlay calls closeModal().
ClickBackdrop == userClose("Backdrop")

\* A click inside the content box, on the textarea: event.target is not the
\* overlay, so no handler acts; the browser gives the textarea focus.
ClickInsideModal ==
  /\ TopHost # 0
  /\ lastEvt' = [Evt("ClickInside") EXCEPT !.session = TopHost, !.sub = Submitting(TopHost)]
  /\ focus' = focusElement(focus, docHosts, ui, TopHost, TextareaPos)
  /\ UNCHANGED <<docHosts, modalHost, shadowRoot, currentComposeWindow, ui, opens,
                 submits, notModal, nCalls>>

\* ----------------------------------------------------- modal: handleSubmit
\* handleSubmit() up to its first await: the null guard, toggleSpinner(true) and
\* the getSettings message.
handleSubmitStart(how, f) ==
  /\ CanSubmit
  /\ IF shadowRoot = 0 \/ currentComposeWindow = 0
     THEN /\ lastEvt' = [Evt("SubmitRefused") EXCEPT !.session = TopHost]
          /\ UNCHANGED <<ui, submits, nCalls>>
     ELSE /\ ui' = toggleSpinner(ui, shadowRoot, TRUE)
          /\ submits' = [submits EXCEPT ![NextSubmit] =
                           [pc |-> "settings", session |-> shadowRoot,
                            origin |-> currentComposeWindow]]
          /\ lastEvt' = [Evt(how) EXCEPT !.session = shadowRoot,
                             !.origin = currentComposeWindow, !.sub = Submitting(shadowRoot)]
          /\ nCalls' = nCalls + 1
  /\ focus' = FocusFixup(f, docHosts, ui')
  /\ UNCHANGED <<docHosts, modalHost, shadowRoot, currentComposeWindow, opens,
                 notModal>>

\* submitButton.addEventListener('click', handleSubmit).  The click gives the
\* button focus before the listener runs.
ClickGenerate ==
  /\ TopHost # 0
  /\ ~ui[TopHost].disabled
  /\ handleSubmitStart("ClickGenerate", focusElement(focus, docHosts, ui, TopHost, SubmitPos))

\* The textarea's keydown listener: Cmd/Ctrl+Enter clicks the submit button
\* unless it is disabled.  The key reaches the listener while the textarea has
\* focus.
PressChord ==
  /\ TopHost # 0
  /\ focus = [host |-> TopHost, pos |-> TextareaPos]
  /\ IF ~ui[TopHost].disabled
     THEN handleSubmitStart("Chord", focus)
     ELSE /\ lastEvt' = [Evt("ChordIgnored") EXCEPT !.session = TopHost,
                             !.sub = Submitting(TopHost)]
          /\ UNCHANGED <<docHosts, modalHost, shadowRoot, currentComposeWindow, ui,
                         opens, submits, focus, notModal, nCalls>>

\* The error path shared by every failure of handleSubmit:
\* displayErrorInModal, showBanner(currentComposeWindow, ...), toggleSpinner(false).
submitErrorUI(u, sr) == toggleSpinner(displayErrorInModal(u, sr), sr, FALSE)

\* handleSubmit resumes with the settings response.  A failed lookup takes the
\* error path.  Otherwise the talking points are read from shadowRoot (a null
\* shadowRoot throws out of handleSubmit, outside both try blocks) and the
\* generate message is sent.
SubmitSettingsResponse(s, ok) ==
  /\ submits[s].pc = "settings"
  /\ IF ~ok
     THEN /\ ui' = submitErrorUI(ui, shadowRoot)
          /\ submits' = [submits EXCEPT ![s] = DoneSubmit]
          /\ lastEvt' = [Evt("SubmitFailed") EXCEPT !.session = submits[s].session,
                             !.origin = submits[s].origin, !.ban = currentComposeWindow,
                             !.bt = IF currentComposeWindow # 0 THEN "error" ELSE "none"]
     ELSE IF shadowRoot = 0
     THEN /\ submits' = [submits EXCEPT ![s] = DoneSubmit]
          /\ lastEvt' = [Evt("SubmitThrew") EXCEPT !.session = submits[s].session,
                             !.origin = submits[s].origin]
          /\ UNCHANGED ui
     ELSE /\ submits' = [submits EXCEPT ![s].pc = "generate"]
          /\ lastEvt' = [Evt("GenerateSent") EXCEPT !.session = submits[s].session,
                             !.origin = submits[s].origin]
          /\ UNCHANGED ui
  /\ focus' = FocusFixup(focus, docHosts, ui')
  /\ UNCHANGED <<docHosts, modalHost, shadowRoot, currentComposeWindow, opens,
                 notModal, nCalls>>

\* appendDraft(composeWindow, draftText): false without a region or when the DOM
\* insertion throws, true once the text is in the region.
appendDraft(r, domThrows) == r # 0 /\ ~domThrows

\* handleSubmit resumes with the generate response (out):
\*   "throw"    sendMessage rejected            "fail"   no response or success=false
\*   "nodraft"  success without a draft         "draft"  success with a draft
\* With a draft, appendDraft(currentComposeWindow, draft); on true the spinner is
\* hidden, the modal closed and an info banner shown on that region.
SubmitGenerateResponse(s, out, domThrows) ==
  /\ submits[s].pc = "generate"
  /\ submits' = [submits EXCEPT ![s] = DoneSubmit]
  /\ IF out = "draft" /\ appendDraft(currentComposeWindow, domThrows)
     THEN /\ closeModal
          /\ ui' = closeModalUI(toggleSpinner(ui, shadowRoot, FALSE), modalHost)
          /\ lastEvt' = [Evt("SubmitSucceeded") EXCEPT 
                             !.session = submits[s].session, !.origin = submits[s].origin,
                             !.ins = currentComposeWindow, !.ban = currentComposeWindow,
                             !.bt = "info", !.closed = (modalHost # 0),
                             !.late = ~InDoc(submits[s].session), !.closedHost = modalHost]
     ELSE /\ ui' = submitErrorUI(ui, shadowRoot)
          /\ lastEvt' = [Evt(IF out = "draft" /\ ~domThrows THEN "DraftNotInserted"
                             ELSE "SubmitFailed")
                           EXCEPT !.session = submits[s].session,
                             !.origin = submits[s].origin, !.ban = currentComposeWindow,
                             !.bt = IF currentComposeWindow # 0 THEN "error" ELSE "none",
                             !.late = ~InDoc(submits[s].session)]
          /\ UNCHANGED <<docHosts, modalHost, shadowRoot, currentComposeWindow>>
  /\ focus' = FocusFixup(focus, docHosts', ui')
  /\ UNCHANGED <<opens, notModal, nCalls>>

\* ------------------------------------------------------- modal: focus trap
\* handleKeyDown for Tab (shift: with Shift), pressed while an element of the
\* shown modal has focus.  The handler works on the shadow root the VARIABLE
\* shadowRoot names: it wraps from the last selected element to the first (from the
\* first to the last with Shift) and prevents the default; in every other case the
\* browser's own navigation moves focus.
PressTab(shift) ==
  /\ TopHost # 0
  /\ focus.host = TopHost
  /\ LET n == IF shadowRoot = 0 THEN 0 ELSE 3 * ui[shadowRoot].copies
         currentElement == IF shadowRoot = focus.host THEN focus.pos ELSE 0
         firstElement == 1
         lastElement == n
     IN focus' = IF n = 0 THEN defaultTab(ui, focus.host, focus.pos, shift)
                 ELSE IF shift /\ currentElement = firstElement
                 THEN focusElement(focus, docHosts, ui, shadowRoot, lastElement)
                 ELSE IF ~shift /\ currentElement = lastElement
                 THEN focusElement(focus, docHosts, ui, shadowRoot, firstElement)
                 ELSE defaultTab(ui, focus.host, focus.pos, shift)
  /\ lastEvt' = [Evt("Tab") EXCEPT !.session = TopHost, !.sub = Submitting(TopHost),
                     !.shift = shift, !.from = focus.pos]
  /\ UNCHANGED <<docHosts, modalHost, shadowRoot, currentComposeWindow, ui, opens,
                 submits, notModal, nCalls>>

\* ======================================================================
\* Compose-region discovery and button injection (content.js:1001-1217,
\* 1575-1595).  The document is a set of compose containers, each holding one
\* or more message-body regions; containers do not nest, and a container is in
\* the document while one of its regions is.
\* ======================================================================

\* What the container of a region looks like to the two locators:
\*   "send"      matches '.AD, .aoP, .dw, form[target]' and holds a Send control
\*   "toolbar"   matches the same, holds no Send control but a toolbar row
\*   "bare"      matches the same, holds neither
\*   "fallback"  matches only '.M9, .aO9' (and holds a Send control)
\*   "outside"   the region lies in no container the locators know
RootTypes == {"send", "toolbar", "bare", "fallback", "outside"}

NoInjEvt == [act |-> "none", threw |-> FALSE, injected |-> 0, examined |-> 0, passes |-> 0,
             after |-> 0, queued |-> 0]

\* The buttons and markers of the document, as one value the functions below thread.
Dom == [m |-> marker, rb |-> replyButtons, ib |-> improveButtons]

CleanDom == [m |-> [k \in ComposeIds |-> FALSE], rb |-> [k \in ComposeIds |-> 0],
             ib |-> [k \in ComposeIds |-> 0]]

\* getComposeWindows(): the regions of the document the strict filter keeps, in
\* document order: inside '.AD, .aoP, .dw, form[target], .M9, .aO9'.  Every region
\* of the model matches the specific selector and is visible and sized.
inComposeArea(r) == rootType[rootOf[r]] # "outside"

RECURSIVE orderedSeq(_)
orderedSeq(S) ==
  IF S = {} THEN <<>>
  ELSE LET x == CHOOSE y \in S : \A z \in S : y <= z IN <<x>> \o orderedSeq(S \ {x})

getComposeWindows == orderedSeq({r \in present : inComposeArea(r)})

\* findPreferredInjectionPoint(region): the compose root when an injection parent
\* exists in it, 0 for null, -1 when the function throws (the assignment to the
\* const composeRoot on the fallback-container path).
findPreferredInjectionPoint(r) ==
  LET t == rootType[rootOf[r]] IN
    IF t = "outside" THEN 0
    ELSE IF t = "fallback" THEN -1
    ELSE IF t \in {"send", "toolbar"} THEN rootOf[r]
    ELSE 0

\* injectButtons(region) on the document d: the result ("true", "false",
\* "throw") and the document afterwards.
injectButtonsNoMarkerCheck(d, r) ==
  LET k == findPreferredInjectionPoint(r) IN
    IF k = -1 THEN [res |-> "throw", d |-> d]
    ELSE IF k = 0 THEN [res |-> "false", d |-> d]
    ELSE [res |-> "true",
          d |-> [m |-> [d.m EXCEPT ![k] = TRUE],
                 rb |-> [d.rb EXCEPT ![k] = @ + 1],
                 ib |-> [d.ib EXCEPT ![k] = @ + 1]]]

injectButtons(d, r) ==
  LET k == findPreferredInjectionPoint(r) IN
    IF k = -1 THEN [res |-> "throw", d |-> d]
    ELSE IF k = 0 THEN [res |-> "false", d |-> d]
    ELSE IF d.m[k] THEN [res |-> "true", d |-> d]
    ELSE [res |-> "true",
          d |-> [m |-> [d.m EXCEPT ![k] = TRUE],
                 rb |-> [d.rb EXCEPT ![k] = @ + 1],
                 ib |-> [d.ib EXCEPT ![k] = @ + 1]]]

\* cleanupAllButtons(): every marker and every button of the document goes.
cleanupAllButtons(d) == CleanDom

\* The forEach of injectIntoExistingWindows over the regions ws: an exception of
\* injectButtons leaves the loop (and the timer callback).
RECURSIVE injectEach(_, _, _)
injectEach(d, ws, n) ==
  IF ws = <<>> THEN [d |-> d, threw |-> FALSE, injected |-> n]
  ELSE LET one == injectButtons(d, Head(ws)) IN
         IF one.res = "throw" THEN [d |-> one.d, threw |-> TRUE, injected |-> n]
         ELSE injectEach(one.d, Tail(ws), IF one.res = "true" THEN n + 1 ELSE n)

\* injectIntoExistingWindows(): cleanupAllButtons(), then injectButtons for every
\* region getComposeWindows() returns.
injectIntoExistingWindows(d) == injectEach(cleanupAllButtons(d), getComposeWindows, 0)

ApplyDom(d) ==
  /\ marker' = d.m
  /\ replyButtons' = d.rb
  /\ improveButtons' = d.ib

regionsOf(k) == {r \in ComposeIds : rootOf[r] = k}

\* A mutation record, named by the region its first region-bearing added node
\* is or holds: the observer callback looks at no later node of a record.
\* Records whose added nodes hold no region (the injected buttons themselves,
\* text nodes) and records of removals pass through the callback without effect
\* and are not queued.
\* The observer callback over the records recs: in each record the first added
\* node that is or holds a region goes to injectButtons and ends that record;
\* the first successful injectButtons ends the batch.  A node removed again
\* before the callback has no container to find.
\*   injected: successful injectButtons calls; examined: records looked at;
\*   after: records looked at after the first successful call
\* A callback without the injectedInThisMutation flag: every record is examined.
RECURSIVE observeBatchNoBreak(_, _, _)
observeBatchNoBreak(d, recs, n) ==
  IF recs = <<>> THEN [d |-> d, threw |-> FALSE, injected |-> 0, examined |-> n, after |-> 0]
  ELSE LET r == Head(recs)
           one == IF r \in present THEN injectButtons(d, r) ELSE [res |-> "false", d |-> d]
       IN IF one.res = "throw"
            THEN [d |-> one.d, threw |-> TRUE, injected |-> 0, examined |-> n + 1, after |-> 0]
          ELSE LET rest == observeBatchNoBreak(one.d, Tail(recs), n + 1) IN
                 IF one.res = "true"
                 THEN [rest EXCEPT !.injected = @ + 1, !.after = rest.examined - (n + 1)]
                 ELSE rest

RECURSIVE observeBatch(_, _, _)
observeBatch(d, recs, n) ==
  IF recs = <<>> THEN [d |-> d, threw |-> FALSE, injected |-> 0, examined |-> n, after |-> 0]
  ELSE LET r == Head(recs)
           one == IF r \in present THEN injectButtons(d, r) ELSE [res |-> "false", d |-> d]
       IN IF one.res = "throw"
            THEN [d |-> one.d, threw |-> TRUE, injected |-> 0, examined |-> n + 1, after |-> 0]
          ELSE IF one.res = "true"
            THEN [d |-> one.d, threw |-> FALSE, injected |-> 1, examined |-> n + 1, after |-> 0]
          ELSE observeBatch(one.d, Tail(recs), n + 1)

ScanEvt(res) ==
  [act |-> "Scan", threw |-> res.threw, injected |-> res.injected, examined |-> 0,
   passes |-> IF injEvt.passes < 2 THEN injEvt.passes + 1 ELSE 2, after |-> 0, queued |-> 0]

\* The start-up timer (content.js:1590-1594): injectIntoExistingWindows(), then
\* setupMutationObserver(); an exception of the scan leaves the callback before
\* the observer is set up.  Timers run with no mutation record undelivered
\* (observer callbacks are microtasks).
StartupTimer ==
  /\ startupPending
  /\ pending = <<>>
  /\ LET res == injectIntoExistingWindows(Dom) IN
       /\ ApplyDom(res.d)
       /\ observing' = ~res.threw
       /\ injEvt' = ScanEvt(res)
  /\ startupPending' = FALSE
  /\ UNCHANGED <<rootOf, rootType, present, pending, hashTimers>>
  /\ UNCHANGED notInject

\* The hashchange listener (content.js:1582-1586): arms a 500 ms timer.
HashChange ==
  /\ hashTimers < MaxHashTimers
  /\ hashTimers' = hashTimers + 1
  /\ UNCHANGED <<rootOf, rootType, present, marker, replyButtons, improveButtons, pending,
                 startupPending, observing, injEvt>>
  /\ UNCHANGED notInject

\* A hashchange timer fires: injectIntoExistingWindows().
HashTimer ==
  /\ hashTimers > 0
  /\ pending = <<>>
  /\ LET res == injectIntoExistingWindows(Dom) IN
       /\ ApplyDom(res.d)
       /\ injEvt' = ScanEvt(res)
  /\ hashTimers' = hashTimers - 1
  /\ UNCHANGED <<rootOf, rootType, present, pending, startupPending, observing>>
  /\ UNCHANGED notInject

\* The MutationObserver callback (content.js:1145-1173) over the queued records.
ObserverCallback ==
  /\ observing
  /\ pending # <<>>
  /\ LET res == observeBatch(Dom, pending, 0) IN
       /\ ApplyDom(res.d)
       /\ injEvt' = [act |-> "Batch", threw |-> res.threw, injected |-> res.injected,
                     examined |-> res.examined, passes |-> 0, after |-> res.after,
                     queued |-> Len(pending)]
  /\ pending' = <<>>
  /\ UNCHANGED <<rootOf, rootType, present, startupPending, hashTimers, observing>>
  /\ UNCHANGED notInject

\* The host page inserts the region nodes S in one DOM operation (one mutation
\* record), the node of region first ahead of the others.
InsertNodes(S, first) ==
  /\ first \in S
  /\ S \cap present = {}
  /\ observing => Len(pending) < MaxPending
  /\ present' = present \cup S
  /\ pending' = IF observing THEN Append(pending, first) ELSE pending
  /\ injEvt' = [NoInjEvt EXCEPT !.act = "Page"]
  /\ UNCHANGED <<rootOf, rootType, marker, replyButtons, improveButtons, startupPending,
                 hashTimers, observing>>
  /\ UNCHANGED notInject

\* The host page inserts the container k with all its regions: the added node
\* holds the regions, querySelector finds the first of them.
InsertContainer(k) ==
  /\ regionsOf(k) # {}
  /\ rootType[k] # "outside"
  /\ regionsOf(k) \cap present = {}
  /\ observing => Len(pending) < MaxPending
  /\ present' = present \cup regionsOf(k)
  /\ pending' = IF observing THEN Append(pending, k) ELSE pending
  /\ injEvt' = [NoInjEvt EXCEPT !.act = "Page"]
  /\ UNCHANGED <<rootOf, rootType, marker, replyButtons, improveButtons, startupPending,
                 hashTimers, observing>>
  /\ UNCHANGED notInject

\* The host page removes region r; its container goes with its last region,
\* and with the container its marker and the buttons in it.
RemoveRegion(r) ==
  /\ r \in present
  /\ present' = present \ {r}
  /\ LET k == rootOf[r]
         gone == regionsOf(k) \cap present = {r}
     IN /\ marker' = IF gone THEN [marker EXCEPT ![k] = FALSE] ELSE marker
        /\ replyButtons' = IF gone THEN [replyButtons EXCEPT ![k] = 0] ELSE replyButtons
        /\ improveButtons' = IF gone THEN [improveButtons EXCEPT ![k] = 0] ELSE improveButtons
  /\ injEvt' = [NoInjEvt EXCEPT !.act = "Page"]
  /\ UNCHANGED <<rootOf, rootType, pending, startupPending, hashTimers, observing>>
  /\ UNCHANGED notInject

\* ======================================================================
\* The background service worker (dist/background.js): handleMessage,
\* callOpenAI and the icon state.
\* ======================================================================
MsgTypes == {"getSettings", "generate", "IMPROVE_TEXT", "SET_ICON_STATE", "unknown", "null"}

IconStates == {"idle", "loading", "error", "inactive"}

\* What a response of the remote API is to callOpenAI: "ok" (2xx with a
\* choices[0].message.content), "badformat" (2xx without one), "network" (fetch
\* rejects), "http" (a non-2xx status).  reasoning: the error text matches
\* /reasoning/i.  cause: why the API refused, "effort" when it refused the
\* reasoning-effort field of the request, which the code cannot see.
Outcome(k, st, re, c) == [kind |-> k, status |-> st, reasoning |-> re, cause |-> c]

NoOutcome == Outcome("none", 0, FALSE, "none")

\* The responses the API can give to a request; hasField: the request body
\* carried the reasoning field.  An API that refuses the field answers 400 and
\* names it.
ApiOutcomes(hasField) ==
  {Outcome("ok", 200, FALSE, "none"), Outcome("badformat", 200, FALSE, "none"),
   Outcome("network", 0, FALSE, "none")}
  \cup {Outcome("http", st, re, "other") : st \in {400, 401, 429, 500}, re \in BOOLEAN}
  \cup (IF hasField THEN {Outcome("http", 400, TRUE, "effort")} ELSE {})

\* doRequest(includeReasoning): does the body carry reasoning: { effort }?
doRequest(includeReasoning, reasoningEffort) == includeReasoning /\ reasoningEffort

\* callOpenAI, line 110: retry without the field?
shouldRetry(o) == o.kind = "http" /\ o.status = 400 /\ o.reasoning

\* A response handed to sendResponse.
Resp(ok, pl, er) == [success |-> ok, payload |-> pl, error |-> er]

NewMsg == [pc |-> "new", type |-> "none", arg |-> "none", effort |-> FALSE,
           reqs |-> <<>>, first |-> NoOutcome, n |-> 0, missing |-> {}]

\* The handleMessage call m goes on as the record n.
Becomes(m, n) == (msgs (-) SetToBag({m})) (+) SetToBag({n})

NoBgEvt == [act |-> "none", type |-> "none", source |-> "none", sent |-> <<>>,
            uncaught |-> FALSE, reqs |-> <<>>, first |-> NoOutcome, lastOk |-> FALSE,
            stale |-> FALSE, reverted |-> FALSE, missing |-> {}]

\* The catch at the boundary of handleMessage (lines 311-314): an exception of
\* the handling becomes one failure response.
noOuterCatch(sent) == [sent |-> sent, uncaught |-> TRUE]

outerCatch(sent) == [sent |-> Append(sent, Resp(FALSE, "none", "Error: exception")), uncaught |-> FALSE]

\* handleMessage returns: the call is gone, the history variable keeps
\* what it sent, the requests callOpenAI made, its first response and whether
\* its last response was a success.
Handled(m, rec, sent, uncaught, last) ==
  /\ msgs' = msgs (-) SetToBag({m})
  /\ bgEvt' = [act |-> "Handled", type |-> rec.type,
               source |-> IF rec.type = "IMPROVE_TEXT" THEN rec.arg ELSE "none",
               sent |-> sent, uncaught |-> uncaught, reqs |-> rec.reqs, first |-> rec.first,
               lastOk |-> last.kind = "ok", stale |-> FALSE, reverted |-> FALSE,
               missing |-> rec.missing]

\* A timer of the 'inactive' branch.  by: the message whose update arms it;
\* armed: setTimeout has run; held: let errorTimeout names it; stale: iconState
\* was assigned again after the transition the timer belongs to.
Timer(by, armed, held, stale) == [by |-> by, armed |-> armed, held |-> held, stale |-> stale]

\* clearTimeout(errorTimeout); errorTimeout = null on the timers ts, at a new
\* assignment of iconState: the timer the variable names is gone, every other
\* one now belongs to an earlier transition.
clearTimeout(ts) ==
  BagOfAll(LAMBDA t : [t EXCEPT !.stale = TRUE], ts (-) SetToBag({t \in BagToSet(ts) : t.held}))

\* iconState = st; updateActionIcon() on the timers ts: clears the timer and
\* shows the branch of st.  The 'inactive' branch of message n arms its timer
\* when its awaits are over.
SetIconOn(st, ts, n) ==
  /\ iconState' = st
  /\ badge' = st
  /\ errorTimeout' = clearTimeout(ts) (+)
                       (IF st = "inactive" THEN SetToBag({Timer(n, FALSE, FALSE, FALSE)}) ELSE EmptyBag)

SetIcon(st) == SetIconOn(st, errorTimeout, 0)

KeepIcon == UNCHANGED <<iconState, badge, errorTimeout>>

\* A message reaches the listener: handleMessage up to its first await.
\*   arg: the source of an IMPROVE_TEXT message, the state of a SET_ICON_STATE one.
Deliver(type, arg) ==
  /\ nMsgs < MaxMsgs
  /\ nMsgs' = nMsgs + 1
  /\ LET rec == [NewMsg EXCEPT !.type = type, !.arg = arg]
         m == rec
     IN CASE type = "null" ->
               \* message.type of null throws inside the try
               /\ arg = "none"
               /\ LET c == outerCatch(<<>>) IN Handled(m, rec, c.sent, c.uncaught, NoOutcome)
               /\ KeepIcon
          [] type = "unknown" ->
               /\ arg = "none"
               /\ Handled(m, rec, <<Resp(FALSE, "none", "Unknown message type")>>, FALSE, NoOutcome)
               /\ KeepIcon
          [] type = "SET_ICON_STATE" ->
               /\ arg \in IconStates \cup {"bogus"}
               /\ IF arg \in IconStates
                  THEN /\ SetIconOn(arg, errorTimeout, nMsgs + 1)
                       /\ msgs' = msgs (+) SetToBag({[rec EXCEPT !.pc = "ack",
                                                    !.n = IF arg = "inactive" THEN nMsgs + 1 ELSE 0]})
                       /\ UNCHANGED bgEvt
                  ELSE /\ Handled(m, rec, <<Resp(FALSE, "none", "Invalid icon state")>>, FALSE, NoOutcome)
                       /\ KeepIcon
          [] type = "IMPROVE_TEXT" ->
               /\ arg \in {"gmail", "generic", "none"}
               /\ SetIcon("loading")
               /\ msgs' = msgs (+) SetToBag({[rec EXCEPT !.pc = "icon"]})
               /\ UNCHANGED bgEvt
          [] type \in {"getSettings", "generate"} ->
               /\ arg = "none"
               /\ msgs' = msgs (+) SetToBag({[rec EXCEPT !.pc = "settings"]})
               /\ KeepIcon
               /\ UNCHANGED bgEvt
  /\ UNCHANGED notBackground

\* IMPROVE_TEXT: await updateActionIcon() is over (line 236), getSettings() starts.
ImproveIconShown(m) ==
  /\ m.pc = "icon"
  /\ msgs' = Becomes(m, [m EXCEPT !.pc = "settings"])
  /\ UNCHANGED <<iconState, badge, errorTimeout, nMsgs, bgEvt>>
  /\ UNCHANGED notBackground

\* SET_ICON_STATE: await updateActionIcon() is over (line 301); the 'inactive'
\* branch armed its timer at its end (lines 47-52); the acknowledgement goes out.
IconAcknowledged(m) ==
  /\ m.pc = "ack"
  /\ Handled(m, m, <<Resp(TRUE, "none", "none")>>, FALSE, NoOutcome)
  /\ errorTimeout' = IF m.arg = "inactive"
                     THEN BagOfAll(LAMBDA t : IF t.by = m.n /\ ~t.armed THEN [t EXCEPT !.armed = TRUE, !.held = TRUE]
                                              ELSE [t EXCEPT !.held = FALSE], errorTimeout)
                     ELSE errorTimeout
  /\ UNCHANGED <<iconState, badge, nMsgs>>
  /\ UNCHANGED notBackground

\* The timer of the 'inactive' branch fires (lines 47-52).
InactiveTimeout(t) ==
  /\ t.armed
  /\ IF iconState = "inactive" THEN SetIconOn("idle", errorTimeout (-) SetToBag({t}), 0)
     ELSE /\ errorTimeout' = errorTimeout (-) SetToBag({t})
          /\ UNCHANGED <<iconState, badge>>
  /\ bgEvt' = [NoBgEvt EXCEPT !.act = "TimerFired", !.stale = t.stale,
                              !.reverted = (iconState = "inactive")]
  /\ UNCHANGED <<msgs, nMsgs>>
  /\ UNCHANGED notBackground

\* The failure response of the flow's own catch (lines 227-230, 292-296).
FlowFailed(m, rec, o, msg) ==
  /\ Handled(m, rec, <<Resp(FALSE, "none", msg)>>, FALSE, o)
  /\ IF rec.type = "IMPROVE_TEXT" THEN SetIcon("error") ELSE KeepIcon

\* callOpenAI starts: doRequest(true), the first request.
FirstRequest(m, rec, effort) ==
  /\ msgs' = Becomes(m, [rec EXCEPT !.pc = "api", !.effort = effort,
                                    !.reqs = <<doRequest(TRUE, effort)>>])
  /\ KeepIcon
  /\ UNCHANGED bgEvt

\* The settings a flow cannot do without that are empty: the credential, and
\* the prompt template the flow uses (promptTemplate for generate,
\* improvePromptTemplate for an improve request tagged gmail,
\* genericImprovePromptTemplate for any other improve request).
flowMissing(type, source, apiKey, promptTpl, improveTpl, genericTpl) ==
  (IF apiKey THEN {} ELSE {"apiKey"})
  \cup (IF type = "generate" /\ ~promptTpl THEN {"promptTemplate"} ELSE {})
  \cup (IF type = "IMPROVE_TEXT" /\ source = "gmail" /\ ~improveTpl
        THEN {"improvePromptTemplate"} ELSE {})
  \cup (IF type = "IMPROVE_TEXT" /\ source # "gmail" /\ ~genericTpl
        THEN {"genericImprovePromptTemplate"} ELSE {})

\* Does the response carry the credential?  The payload of a getSettings response
\* is the settings object as getSettings() returned it, every field included;
\* missing: the settings that are empty.
carriesCredential(resp, missing) == resp.payload = "settings" /\ "apiKey" \notin missing

\* await getSettings() is over.  The settings are the stored ones over the
\* defaults of storage.js: apiKey, promptTpl, improveTpl, genericTpl say whether
\* the field is non-empty, effort whether the flow's reasoning effort is set.
SettingsResolved(m, apiKey, promptTpl, improveTpl, genericTpl, effort) ==
  /\ m.pc = "settings"
  \* the fields a flow does not read are left out of the enumeration
  /\ m.type = "getSettings" => effort
  /\ m.type # "IMPROVE_TEXT" => improveTpl /\ genericTpl
  /\ m.type # "generate" => promptTpl
  /\ LET rec == [m EXCEPT !.missing = flowMissing(m.type, m.arg, apiKey, promptTpl,
                                                  improveTpl, genericTpl)] IN
       CASE rec.type = "getSettings" ->
              /\ Handled(m, rec, <<Resp(TRUE, "settings", "none")>>, FALSE, NoOutcome)
              /\ KeepIcon
         [] rec.type = "generate" ->
              IF ~apiKey
              THEN /\ Handled(m, rec, <<Resp(FALSE, "none", "API Key is missing")>>, FALSE, NoOutcome)
                   /\ KeepIcon
              \* createPrompt(settings.promptTemplate, ...) of an empty template is
              \* the empty prompt, which goes to callOpenAI as it is
              ELSE FirstRequest(m, rec, effort)
         [] rec.type = "IMPROVE_TEXT" ->
              IF ~apiKey
              THEN /\ Handled(m, rec, <<Resp(FALSE, "none", "API Key is missing")>>, FALSE, NoOutcome)
                   /\ SetIcon("error")
              ELSE IF ~improveTpl
              THEN /\ Handled(m, rec, <<Resp(FALSE, "none", "Improve text prompt template is missing")>>,
                              FALSE, NoOutcome)
                   /\ SetIcon("error")
              ELSE IF ~genericTpl
              THEN \* line 258 reads DEFAULT_GENERIC_IMPROVE_PROMPT, which this file
                   \* neither defines nor imports: ReferenceError
                   /\ LET c == outerCatch(<<>>) IN Handled(m, rec, c.sent, c.uncaught, NoOutcome)
                   /\ KeepIcon
              ELSE FirstRequest(m, rec, effort)
  /\ UNCHANGED nMsgs
  /\ UNCHANGED notBackground

\* A response of the remote API reaches callOpenAI (lines 105-130), and what
\* handleMessage does with the result of callOpenAI.
ApiResponse(m, o) ==
  /\ m.pc = "api"
  /\ o \in ApiOutcomes(m.reqs[Len(m.reqs)])
  /\ LET rec == m
         n == Len(rec.reqs)
         done == IF n = 1 THEN [rec EXCEPT !.first = o] ELSE rec
     IN IF o.kind = "ok"
        THEN /\ Handled(m, done, <<Resp(TRUE, IF rec.type = "generate" THEN "draft" ELSE "text", "none")>>,
                        FALSE, o)
             /\ IF rec.type = "IMPROVE_TEXT" THEN SetIcon("idle") ELSE KeepIcon
        ELSE IF n = 1 /\ shouldRetry(o)
        THEN /\ msgs' = Becomes(m, [rec EXCEPT !.reqs = Append(rec.reqs, doRequest(FALSE, rec.effort)),
                                                !.first = o])
             /\ KeepIcon
             /\ UNCHANGED bgEvt
        ELSE FlowFailed(m, done, o, "OpenAI API error")
  /\ UNCHANGED nMsgs
  /\ UNCHANGED notBackground

\* ======================================================================
\* The improve-selection flow of the in-page agent (content.js:
\* createImproveTextButton, triggerImproveText, handleImproveTextResult,
\* replaceOrShowOverlay, the spinner and the overlay).
\* ======================================================================

\* Where the user's selection and focus are:
\*   "none"      nothing is selected, or white space only
\*   "compose"   text is selected in a Gmail message-body region
\*   "input"     text is selected in a focused input or textarea
\*   "editable"  text is selected in another contenteditable element
\*   "static"    text is selected in page text that cannot be edited
SelKinds == {"none", "compose", "input", "editable", "static"}

TextIds == 1..MaxImprove

NoImpEvt == [act |-> "none", text |-> 0, received |-> FALSE, inserted |-> FALSE,
             allFailed |-> FALSE, shown |-> "none", icon |-> "none", origin |-> "none",
             via |-> "none", how |-> "none", captureBy |-> 0, uses |-> 0]

NoCapture == [by |-> 0, uses |-> 0]

ImpEvt(a) == [NoImpEvt EXCEPT !.act = a]

\* A trigger that goes on whatever is selected.
anySelectionGoes(k) == TRUE

\* The test both triggers make of the trimmed selection: if (!selectedText).
hasSelectedText(k) == k # "none"

\* The user selects text somewhere, or drops the selection.
Select(k) ==
  /\ k # pageSel
  /\ pageSel' = k
  /\ impEvt' = ImpEvt("Select")
  /\ UNCHANGED <<lastSelectionRange, lastInputSelection, capture, currentSpinner, currentOverlay,
                 improving, finishing, improvingBanners, nImp, clipboard>>
  /\ UNCHANGED notImprove

\* triggerImproveText() (the TRIGGER_IMPROVE message of the keyboard shortcut).
\*   hasRange: window.getSelection() holds a range while an input has the focus
TriggerImprove(hasRange) ==
  /\ nImp < MaxImprove
  /\ pageSel # "input" => hasRange
  /\ currentOverlay' = 0
  /\ lastInputSelection' = (pageSel = "input")
  /\ capture' = IF pageSel = "none" THEN NoCapture ELSE [by |-> nImp + 1, uses |-> 0]
  /\ lastSelectionRange' = IF pageSel \in {"none", "input"} THEN "none" ELSE pageSel
  /\ IF ~hasSelectedText(pageSel)
     THEN \* no text: SET_ICON_STATE inactive, nothing else
          /\ currentSpinner' = 0
          /\ impEvt' = [ImpEvt("NothingSelected") EXCEPT !.icon = "inactive", !.via = "shortcut"]
          /\ UNCHANGED <<improving, nImp>>
     ELSE /\ currentSpinner' = IF hasRange THEN nImp + 1 ELSE 0
          /\ nImp' = nImp + 1
          /\ improving' = improving (+) SetToBag({[via |-> "shortcut", text |-> nImp + 1,
                             source |-> IF pageSel = "compose" THEN "gmail" ELSE "generic",
                             origin |-> pageSel]})
          /\ impEvt' = [ImpEvt("Triggered") EXCEPT !.icon = "loading", !.text = nImp + 1,
                                                 !.via = "shortcut"]
  /\ UNCHANGED <<pageSel, finishing, improvingBanners, clipboard>>
  /\ UNCHANGED notImprove

\* mousedown on the improve button injected into a compose region
\* (createImproveTextButton's listener): the message carries no source, the
\* callback is handleImproveTextResult.
MousedownImprove ==
  /\ nImp < MaxImprove
  /\ IF ~hasSelectedText(pageSel)
     THEN /\ impEvt' = [ImpEvt("NothingSelected") EXCEPT !.shown = "banner-info", !.via = "button"]
          /\ UNCHANGED <<improving, nImp, improvingBanners>>
     ELSE /\ nImp' = nImp + 1
          /\ improving' = improving (+) SetToBag({[via |-> "button", text |-> nImp + 1,
                                                   source |-> "none", origin |-> "compose"]})
          /\ improvingBanners' = improvingBanners \cup {nImp + 1}
          /\ impEvt' = [ImpEvt("Triggered") EXCEPT !.shown = "banner-info", !.text = nImp + 1,
                                                 !.via = "button"]
  /\ UNCHANGED <<pageSel, lastSelectionRange, lastInputSelection, capture, currentSpinner,
                 currentOverlay, finishing, clipboard>>
  /\ UNCHANGED notImprove

\* findActiveComposeWindow() finds a region: the selection is in one, or
\* getComposeWindows() returns one.
findActiveComposeWindow(hasCompose) == pageSel = "compose" \/ hasCompose

\* replaceOrShowOverlay(range, text) with the restored selection in a place of
\* kind k: execCommand in an editable place, false otherwise.
replaceOrShowOverlay(k, execOk) == k \in {"compose", "editable"} /\ execOk

\* The body of handleImproveTextResult for a response with success and text,
\* up to its SET_ICON_STATE message: what became of the text.
\*   how: "exec" (Gmail insertText), "input" (setRangeText), "range"
\*   (replaceOrShowOverlay), "nothing" (no target), "overlay", "alert"
applyImprovedText(source, hasCompose, selRange, execOk, inputOk) ==
  IF source = "gmail" /\ findActiveComposeWindow(hasCompose)
  THEN [how |-> "exec", ok |-> execOk,
        shown |-> IF execOk THEN "banner-info" ELSE "banner-error"]
  ELSE IF source = "generic"
  THEN IF lastInputSelection
       THEN [how |-> "input", ok |-> inputOk, shown |-> "none"]
       ELSE IF lastSelectionRange # "none"
       THEN [how |-> "range", ok |-> replaceOrShowOverlay(lastSelectionRange, execOk),
             shown |-> "none"]
       ELSE [how |-> "nothing", ok |-> FALSE, shown |-> "none"]
  ELSE IF selRange
  THEN [how |-> "overlay", ok |-> TRUE, shown |-> "overlay"]
  ELSE [how |-> "alert", ok |-> FALSE, shown |-> "alert"]

\* handleImproveTextResult(response) for a response with success and text, up to
\* its await of the SET_ICON_STATE message.
handleImproveTextResult(req, hasCompose, selRange, execOk, inputOk) ==
  LET a == applyImprovedText(req.source, hasCompose, selRange, execOk, inputOk) IN
    /\ currentSpinner' = 0
    /\ currentOverlay' = IF a.how = "overlay" THEN req.text ELSE currentOverlay
    \* replaceOrShowOverlay puts the captured range back as the selection
    /\ pageSel' = IF a.how = "range" THEN lastSelectionRange ELSE pageSel
    /\ finishing' = finishing + 1
    /\ UNCHANGED improvingBanners
    /\ impEvt' = [act |-> "Result", text |-> req.text, received |-> TRUE,
                  inserted |-> a.how \in {"exec", "input", "range"} /\ a.ok,
                  allFailed |-> a.how \in {"exec", "input", "range", "nothing"} /\ ~a.ok,
                  shown |-> a.shown, icon |-> IF a.ok THEN "idle" ELSE "error",
                  origin |-> req.origin, via |-> req.via, how |-> a.how,
                  captureBy |-> capture.by,
                  uses |-> IF a.how \in {"input", "range"} THEN capture.uses + 1 ELSE 0]
    /\ capture' = IF a.how \in {"input", "range"}
                  THEN [capture EXCEPT !.uses = capture.uses + 1] ELSE capture
    /\ UNCHANGED <<lastSelectionRange, lastInputSelection, clipboard>>

\* The response to an IMPROVE_TEXT message reaches its callback.
\*   out: "text" (success with a text), "empty" (success with an empty text),
\*        "error" (success = false), "lastError" (no response: the callback runs
\*        with undefined and chrome.runtime.lastError set)
\*   hasCompose: getComposeWindows() returns a region; selRange:
\*   window.getSelection() holds a range; execOk: execCommand returns true;
\*   inputOk: writing the input or textarea does not throw
ImproveResponse(req, out, hasCompose, selRange, execOk, inputOk) ==
  /\ improving' = improving (-) SetToBag({req})
  /\ pageSel \in {"compose", "editable", "static"} => selRange
  /\ pageSel = "none" => ~selRange
  /\ IF out = "text" THEN handleImproveTextResult(req, hasCompose, selRange, execOk, inputOk)
     ELSE /\ UNCHANGED <<pageSel, currentOverlay, finishing, improvingBanners, clipboard>>
          /\ IF req.via = "shortcut"
             THEN IF out = "lastError"
                  THEN \* lines 1508-1514: spinner off, SET_ICON_STATE error, alert
                       /\ currentSpinner' = 0
                       /\ impEvt' = [ImpEvt("SendFailed") EXCEPT !.shown = "alert", !.icon = "error",
                                                               !.text = req.text]
                       /\ UNCHANGED <<lastSelectionRange, lastInputSelection, capture>>
                  ELSE IF out = "empty"
                  THEN \* type is IMPROVE_TEXT_RESULT: handleImproveTextResult, its else branch
                       /\ currentSpinner' = 0
                       /\ lastSelectionRange' = "none"
                       /\ lastInputSelection' = FALSE
                       /\ capture' = NoCapture
                       /\ impEvt' = [ImpEvt("ResultIgnored") EXCEPT !.text = req.text]
                  ELSE \* a failure response has no type: line 1519 drops it
                       /\ impEvt' = [ImpEvt("ErrorDropped") EXCEPT !.text = req.text]
                       /\ UNCHANGED <<currentSpinner, lastSelectionRange, lastInputSelection, capture>>
             ELSE IF out = "lastError"
                  THEN \* handleImproveTextResult(undefined): removeSpinner(), then
                       \* response.success throws
                       /\ currentSpinner' = 0
                       /\ impEvt' = [ImpEvt("ResultThrew") EXCEPT !.text = req.text]
                       /\ UNCHANGED <<lastSelectionRange, lastInputSelection, capture>>
                  ELSE \* handleImproveTextResult, its else branch
                       /\ currentSpinner' = 0
                       /\ lastSelectionRange' = "none"
                       /\ lastInputSelection' = FALSE
                       /\ capture' = NoCapture
                       /\ impEvt' = [ImpEvt("ResultIgnored") EXCEPT !.text = req.text]
  /\ UNCHANGED nImp
  /\ UNCHANGED notImprove

\* The SET_ICON_STATE message of handleImproveTextResult is answered: lines 1312-1313.
FinishResult ==
  /\ finishing > 0
  /\ finishing' = finishing - 1
  /\ UNCHANGED improvingBanners
  /\ lastSelectionRange' = "none"
  /\ lastInputSelection' = FALSE
  /\ capture' = NoCapture
  /\ impEvt' = ImpEvt("ResultFinished")
  /\ UNCHANGED <<pageSel, currentSpinner, currentOverlay, improving, nImp, clipboard>>
  /\ UNCHANGED notImprove

\* A click on the Copy button of the overlay: navigator.clipboard.writeText.
ClickOverlayCopy(ok) ==
  /\ currentOverlay # 0
  /\ clipboard' = IF ok THEN currentOverlay ELSE clipboard
  /\ impEvt' = [ImpEvt("Copy") EXCEPT !.text = currentOverlay]
  /\ UNCHANGED <<pageSel, lastSelectionRange, lastInputSelection, capture, currentSpinner,
                 currentOverlay, improving, finishing, improvingBanners, nImp>>
  /\ UNCHANGED notImprove

\* A click outside the overlay: removeOverlay().
ClickOutsideOverlay ==
  /\ currentOverlay # 0
  /\ currentOverlay' = 0
  /\ impEvt' = ImpEvt("OverlayDismissed")
  /\ UNCHANGED <<pageSel, lastSelectionRange, lastInputSelection, capture, currentSpinner,
                 improving, finishing, improvingBanners, nImp, clipboard>>
  /\ UNCHANGED notImprove

\* A click on the close button of an 'Improving text...' banner (closeBanner).
CloseImprovingBanner(f) ==
  /\ f \in improvingBanners
  /\ improvingBanners' = improvingBanners \ {f}
  /\ impEvt' = [ImpEvt("BannerClosed") EXCEPT !.text = f]
  /\ UNCHANGED <<pageSel, lastSelectionRange, lastInputSelection, capture, currentSpinner,
                 currentOverlay, improving, finishing, nImp, clipboard>>
  /\ UNCHANGED notImprove

\* ======================================================================
\* The settings store (utils/storage.js) and the fields its readers use.
\* A settings object is a function from the fields it holds to their values:
\*   "d" the value DEFAULT_SETTINGS gives the field, "s" a value stored by an
\*   earlier version or session, "u" a value named in a setSettings argument
\* ======================================================================

\* The keys of DEFAULT_SETTINGS.
DefaultKeys == {"apiKey", "model", "promptTemplate", "improvePromptTemplate",
                "genericImprovePromptTemplate"}

DEFAULT_SETTINGS == [f \in DefaultKeys |-> "d"]

\* The fields handleMessage reads from the result of getSettings (background.js:204-283).
ReadKeys == {"apiKey", "promptTemplate", "composeModel", "composeReasoningEffort",
             "improvePromptTemplate", "genericImprovePromptTemplate", "gmailImproveModel",
             "generalImproveModel", "improveReasoningEffort", "generalImproveEffort"}

\* The per-flow ones: models, prompt templates and reasoning efforts.
PerFlowKeys == ReadKeys \ {"apiKey"}

\* The fields the options form saves (saveSettings).
OptionsKeys == {"apiKey", "composeModel", "gmailImproveModel", "generalImproveModel",
                "promptTemplate", "improvePromptTemplate", "genericImprovePromptTemplate"}

\* The object spread { ...a, ...b }.
Spread(a, b) == [f \in DOMAIN a \cup DOMAIN b |-> IF f \in DOMAIN b THEN b[f] ELSE a[f]]

Settings(S, v) == [f \in S |-> v]

\* The stored records a run starts from: nothing stored (the key is absent, or
\* holds undefined or null, which result[SETTINGS_KEY] || {} turns into the empty
\* record, as the default of the storage read does), a record saved before
\* the per-flow fields existed, a record saved by the current options form.
InitialStores == {Settings({}, "s"), Settings({"apiKey", "model", "promptTemplate"}, "s"),
                  Settings(OptionsKeys, "s")}

\* The arguments of setSettings: the empty object, single fields, the options form.
Partials == {Settings({}, "u"), Settings({"apiKey"}, "u"), Settings({"composeModel"}, "u"),
             Settings({"improveReasoningEffort"}, "u"), Settings(OptionsKeys, "u")}

NoSettingsEvt == [act |-> "none", ok |-> FALSE, partial |-> {}, base |-> {}, result |-> Settings({}, "d")]

\* A getSettings that returns the stored record as it is.
getStoredOnly(stored, readThrows) == IF readThrows THEN Settings({}, "d") ELSE stored

\* A getSettings that ignores the stored record.
getDefaultsOnly(stored, readThrows) == DEFAULT_SETTINGS

\* getSettings(): the stored record over the defaults; the defaults alone when
\* the storage read throws.
getSettings(stored, readThrows) ==
  IF readThrows THEN DEFAULT_SETTINGS ELSE Spread(DEFAULT_SETTINGS, stored)

\* A caller awaits getSettings() and gets its result.
GetSettings(readThrows) ==
  /\ settingsEvt' = [NoSettingsEvt EXCEPT !.act = "get", !.ok = ~readThrows,
                                          !.result = getSettings(store, readThrows)]
  /\ UNCHANGED <<store, setCalls, nSets>>
  /\ UNCHANGED notSettings

\* setSettings(partialSettings) up to its storage write: the argument check,
\* await getSettings(), the merge.  valid: the argument is a non-null object.
SetSettings(partial, valid, readThrows) ==
  /\ nSets < MaxSets
  /\ nSets' = nSets + 1
  /\ ~valid => partial = Settings({}, "u") /\ ~readThrows
  /\ IF ~valid
     THEN /\ settingsEvt' = [NoSettingsEvt EXCEPT !.act = "setInvalid"]
          /\ UNCHANGED setCalls
     ELSE LET currentSettings == getSettings(store, readThrows)
              newSettings == Spread(currentSettings, partial) IN
            /\ setCalls' = setCalls (+) SetToBag({[new |-> newSettings,
                                                   partial |-> DOMAIN partial,
                                                   base |-> IF readThrows THEN {} ELSE DOMAIN store]})
            /\ settingsEvt' = [NoSettingsEvt EXCEPT !.act = "setRead", !.ok = ~readThrows,
                                                    !.partial = DOMAIN partial]
  /\ UNCHANGED store
  /\ UNCHANGED notSettings

\* chrome.storage.sync.set of a suspended setSettings call is performed (or
\* rejects), and setSettings returns true (or false).
StorageSet(call, writeThrows) ==
  /\ setCalls' = setCalls (-) SetToBag({call})
  /\ store' = IF writeThrows THEN store ELSE call.new
  /\ settingsEvt' = [NoSettingsEvt EXCEPT !.act = IF writeThrows THEN "setFailed" ELSE "set",
                                          !.ok = ~writeThrows, !.partial = call.partial,
                                          !.base = call.base]
  /\ UNCHANGED nSets
  /\ UNCHANGED notSettings

\* ======================================================================
\* Text handling.  A text is a sequence of characters; the characters that
\* matter to the code are the space, the newline, another white-space
\* character (the tab) and a character that is not white space.
\* ======================================================================
Chars == {"x", " ", "\n", "\t"}

\* What String.prototype.trim() strips.
WhiteSpace == {" ", "\n", "\t"}

Texts(n) == UNION {[1..k -> Chars] : k \in 0..n}

RECURSIVE trimStart(_)
trimStart(t) == IF t # <<>> /\ Head(t) \in WhiteSpace THEN trimStart(Tail(t)) ELSE t

RECURSIVE trimEnd(_)
trimEnd(t) ==
  IF t # <<>> /\ t[Len(t)] \in WhiteSpace THEN trimEnd(SubSeq(t, 1, Len(t) - 1)) ELSE t

trim(t) == trimEnd(trimStart(t))

\* ---------------------------------------------------------- appendDraft
NoDraftEvt == [act |-> "none", before |-> <<>>, draft |-> <<>>, editable |-> FALSE,
               returned |-> FALSE]

\* The text appendDraft hands to the editor: the draft, after one space when the
\* region has content whose last character is neither ' ' nor '\n'.
textToInsert(c, d) ==
  LET hasExistingContent == Len(trim(c)) > 0
      lastChar == c[Len(c)]
  IN (IF hasExistingContent /\ lastChar # " " /\ lastChar # "\n" THEN <<" ">> ELSE <<>>) \o d

\* document.execCommand('insertText', false, t) after editableDiv.focus(): the
\* text goes in at the region's selection, k characters from the start.
execInsertText(c, k, t) == SubSeq(c, 1, k) \o t \o SubSeq(c, k + 1, Len(c))

\* appendDraft(composeWindow, draftText) on the region: false for an empty draft
\* or a region that is not contenteditable; otherwise the text is inserted with
\* execCommand or, when that returns false (execOk = FALSE), appended as a text
\* node with the selection collapsed to the end.
AppendDraft(d, editable, execOk) ==
  /\ Len(regionText) <= MaxRegionText
  /\ IF d = <<>> \/ ~editable
     THEN UNCHANGED <<regionText, caret>>
     ELSE LET t == textToInsert(regionText, d) IN
            /\ regionText' = IF execOk THEN execInsertText(regionText, caret, t)
                             ELSE regionText \o t
            /\ caret' = IF execOk THEN caret + Len(t) ELSE Len(regionText \o t)
  /\ draftEvt' = [act |-> "appendDraft", before |-> regionText, draft |-> d,
                  editable |-> editable, returned |-> (d # <<>> /\ editable)]
  /\ UNCHANGED <<template, prompt, promptEvt, selection, talkingPoints, prefillEvt>>
  /\ UNCHANGED notText

\* The user puts the caret somewhere in the region.
PlaceCaret(k) ==
  /\ k \in 0..Len(regionText)
  /\ k # caret
  /\ caret' = k
  /\ draftEvt' = NoDraftEvt
  /\ UNCHANGED <<regionText, template, prompt, promptEvt, selection, talkingPoints, prefillEvt>>
  /\ UNCHANGED notText

\* ---------------------------------------------------------- createPrompt
\* A template or a substituted text is a sequence of pieces: the two placeholder
\* tokens, ordinary text, and the two-character sequences that
\* String.prototype.replace reads as patterns in a replacement string.
BulletToken == "[Bullet_points]"

EmailToken == "[Email_context]"

Pieces == {"x", BulletToken, EmailToken, "$&", "$$"}

PieceTexts(n) == UNION {[1..k -> Pieces] : k \in 0..n}

\* What replace() inserts for the replacement string r at a match of tok:
\* "$&" stands for the matched text and "$$" for one "$".
replacement(r, tok) ==
  [i \in 1..Len(r) |-> IF r[i] = "$&" THEN tok ELSE IF r[i] = "$$" THEN "$" ELSE r[i]]

\* t.replace(/tok/g, r): one left-to-right pass over t; what is inserted is not
\* scanned again.
RECURSIVE replaceAll(_, _, _)
replaceAll(t, tok, r) ==
  IF t = <<>> THEN <<>>
  ELSE (IF Head(t) = tok THEN replacement(r, tok) ELSE <<Head(t)>>) \o replaceAll(Tail(t), tok, r)

createPrompt(tpl, bulletPoints, emailContext) ==
  replaceAll(replaceAll(tpl, BulletToken, bulletPoints), EmailToken, emailContext)

NoPromptEvt == [act |-> "none", from |-> <<>>, a |-> <<>>, b |-> <<>>]

\* The generate flow builds its prompt from the stored template.
CreatePrompt(a, b) ==
  /\ prompt' = createPrompt(template, a, b)
  /\ promptEvt' = [act |-> "createPrompt", from |-> template, a |-> a, b |-> b]
  /\ UNCHANGED <<template, regionText, caret, draftEvt, selection, talkingPoints, prefillEvt>>
  /\ UNCHANGED notText

\* createPrompt applied to a prompt it returned.
CreatePromptAgain(a, b) ==
  /\ promptEvt.act = "createPrompt"
  /\ prompt' = createPrompt(prompt, a, b)
  /\ promptEvt' = [act |-> "again", from |-> prompt, a |-> a, b |-> b]
  /\ UNCHANGED <<template, regionText, caret, draftEvt, selection, talkingPoints, prefillEvt>>
  /\ UNCHANGED notText

\* ------------------------------------------------- prefill of the modal
\* The selection is a sequence of pieces: characters, and character references
\* as they appear in text ("&#32;" for a space, "&amp;" for an ampersand).
SelectionPieces == {"x", " ", "&#32;", "&amp;"}

Selections == UNION {[1..k -> SelectionPieces] : k \in 0..MaxSelection}

\* htmlDecode(text): the text is parsed as the content of a <textarea>, which
\* resolves the character references, and read back as its value.
htmlDecode(t) ==
  [i \in 1..Len(t) |-> IF t[i] = "&#32;" THEN " " ELSE IF t[i] = "&amp;" THEN "&" ELSE t[i]]

NoPrefillEvt == [act |-> "none", selection |-> <<>>]

\* The user selects text on the page, or clears the selection.
SelectText(t) ==
  /\ t # selection
  /\ selection' = t
  /\ prefillEvt' = NoPrefillEvt
  /\ UNCHANGED <<talkingPoints, regionText, caret, draftEvt, template, prompt, promptEvt>>
  /\ UNCHANGED notText

\* What openModal does with the selection: a non-empty selection is trimmed and
\* then decoded, and a non-empty result becomes the value of the new modal's
\* textarea, which is empty otherwise.
Prefill ==
  /\ LET selectedText == IF selection # <<>> THEN htmlDecode(trim(selection)) ELSE <<>>
     IN talkingPoints' = IF selectedText # <<>> THEN selectedText ELSE <<>>
  /\ prefillEvt' = [act |-> "opened", selection |-> selection]
  /\ UNCHANGED <<selection, regionText, caret, draftEvt, template, prompt, promptEvt>>
  /\ UNCHANGED notText

\* ======================================================================
\* Banners (content.js: showBanner and the closeBanner closure of each banner).
\* A banner is named by its number in creation order; a container is named by
\* the banner showBanner created it for.
\* ======================================================================

\* options.timeout as callers give it: 0 (no auto-dismiss) or a delay.
DefaultTimeout == 5000

Timeouts == {0, DefaultTimeout}

NoBannerEvt == [act |-> "none", banner |-> 0, wasShown |-> FALSE]

\* The banners still in the container c.
children(bs, c) == {b \in 1..Len(bs) : bs[b].container = c /\ bs[b].shown}

\* closeBanner leaves the container in place.
containerKept(cont, r, c, left) == cont

\* closeBanner's "Remove the container if no banners left": the container c of
\* region r, with left banners in it, is taken out of the region.
containerAfterClose(cont, r, c, left) ==
  IF left = 0 /\ cont[r] = c THEN [cont EXCEPT ![r] = 0] ELSE cont

\* showBanner(composeWindow, message, options): null without a region or a
\* message; otherwise the region's container is found or created, the banner
\* appended to it and, for a timeout above 0, the auto-dismiss timer armed.
ShowBanner(r, hasMessage, timeout) ==
  /\ Len(banners) < MaxBanners
  /\ IF r = 0 \/ ~hasMessage
     THEN /\ bannerEvt' = [NoBannerEvt EXCEPT !.act = "showRefused"]
          /\ UNCHANGED <<bannerContainer, banners>>
     ELSE LET b == Len(banners) + 1
              c == IF bannerContainer[r] = 0 THEN b ELSE bannerContainer[r]
          IN /\ bannerContainer' = [bannerContainer EXCEPT ![r] = c]
             /\ banners' = Append(banners, [region |-> r, container |-> c, shown |-> TRUE,
                                            timeout |-> timeout, timer |-> timeout > 0])
             /\ bannerEvt' = [NoBannerEvt EXCEPT !.act = "show", !.banner = b]
  /\ UNCHANGED notBanner

\* closeBanner() of banner b: nothing for a banner that is no longer in its
\* container; otherwise the banner is removed, and its container with it when
\* that was the last one.
closeBanner(b, bs) ==
  /\ banners' = [bs EXCEPT ![b].shown = FALSE]
  /\ bannerContainer' =
       IF bs[b].shown
       THEN containerAfterClose(bannerContainer, bs[b].region, bs[b].container,
                                Cardinality(children(banners', bs[b].container)))
       ELSE bannerContainer

\* A click on the close button of a banner that is shown.
ClickCloseBanner(b) ==
  /\ b \in 1..Len(banners)
  /\ banners[b].shown
  /\ closeBanner(b, banners)
  /\ bannerEvt' = [act |-> "close", banner |-> b, wasShown |-> TRUE]
  /\ UNCHANGED notBanner

\* The auto-dismiss timer of banner b fires: setTimeout(closeBanner, timeout).
BannerTimeout(b) ==
  /\ b \in 1..Len(banners)
  /\ banners[b].timer
  /\ closeBanner(b, [banners EXCEPT ![b].timer = FALSE])
  /\ bannerEvt' = [act |-> "timer", banner |-> b, wasShown |-> banners[b].shown]
  /\ UNCHANGED notBanner

\* ======================================================================
\* Compose-window discovery: getComposeWindows over a document whose elements
\* differ in the selectors they match, their box, their display and their place
\* ======================================================================

\* What an element matches: the specific message-body selector (line 13), only one
\* of the broader selectors of lines 16-21, only the fallback selector of line 32.
Selectors == {"specific", "broad", "fallback"}

MinWidth == 50
MinHeight == 30

\* getBoundingClientRect(): boxes on both sides of each limit.
Boxes == {<<MinWidth + 1, MinHeight + 1>>, <<MinWidth, MinHeight + 1>>,
          <<MinWidth + 1, MinHeight>>}

Displays == {"block", "none"}

\* area: the element has an ancestor matching '.AD, .aoP, .dw, form[target], .M9, .aO9'.
ElementKinds ==
  {[sel |-> x, w |-> b[1], h |-> b[2], display |-> d, area |-> a] :
     x \in Selectors, b \in Boxes, d \in Displays, a \in BOOLEAN}

NoComposeEvt == [act |-> "none", result |-> <<>>]

\* The broader selectors alone.
broadSelectors(e) == e.sel = "broad"

\* combinedSelector: the specific selector joined with the broader ones.
combinedSelector(e) == e.sel \in {"specific", "broad"}

\* '[contenteditable="true"][role="textbox"]'
fallbackSelector(e) == e.sel \in {"specific", "fallback"}

\* querySelectorAll: the positions of the matching elements, in document order.
potentialWindows(doc) ==
  LET primary == {i \in 1..Len(doc) : combinedSelector(doc[i])} IN
    IF primary # {} THEN primary
    ELSE {i \in 1..Len(doc) : fallbackSelector(doc[i])}

\* The filter of lines 41-66.
isComposeWindow(e) ==
  LET isSpecificMatch == e.sel = "specific"
      isVisible == e.w > MinWidth /\ e.h > MinHeight /\ e.display # "none"
      isInComposeArea == e.area
  IN isSpecificMatch /\ isVisible /\ isInComposeArea

composeWindows(doc) == orderedSeq({i \in potentialWindows(doc) : isComposeWindow(doc[i])})

DomIdle ==
  /\ elements = <<>>
  /\ composeEvt = NoComposeEvt

\* Gmail adds an element to the document, anywhere in it.
AddElement(i, e) ==
  /\ Len(elements) < MaxElements
  /\ i \in 1..(Len(elements) + 1)
  /\ elements' = SubSeq(elements, 1, i - 1) \o <<e>> \o SubSeq(elements, i, Len(elements))
  /\ composeEvt' = NoComposeEvt
  /\ UNCHANGED notDom

\* Gmail removes an element.
RemoveElement(i) ==
  /\ i \in 1..Len(elements)
  /\ elements' = SubSeq(elements, 1, i - 1) \o SubSeq(elements, i + 1, Len(elements))
  /\ composeEvt' = NoComposeEvt
  /\ UNCHANGED notDom

\* A call of getComposeWindows().
CallGetComposeWindows ==
  /\ composeEvt' = [act |-> "getComposeWindows", result |-> composeWindows(elements)]
  /\ UNCHANGED <<elements, notDom>>

\* ======================================================================
\* The action icon: updateActionIcon (dist/background.js:17-62), a call of which
\* is suspended at each of its chrome.action calls, and the assignments of
\* iconState that start one
\* ======================================================================

\* The chrome.action calls of each branch, in the order the branch awaits them.
Calls(st) ==
  IF st \in {"loading", "error"}
  THEN <<"setIcon", "setBadgeText", "setBadgeBackgroundColor", "setTitle">>
  ELSE <<"setIcon", "setBadgeText", "setTitle">>

BadgeText(st) == IF st = "loading" THEN "..." ELSE IF st = "error" THEN "!" ELSE ""

BadgeColor(st) == IF st = "loading" THEN "#FFA500" ELSE "#FF0000"

Title(st) ==
  IF st = "loading" THEN "Processing..."
  ELSE IF st = "error" THEN "Error occurred. Click for details (if implemented)"
  ELSE IF st = "inactive" THEN "No text selected"
  ELSE "Gmail AI Reply Assistant"

\* The toolbar button before any call: no badge, the title of the manifest.
ManifestAction == [text |-> "", color |-> "none", title |-> "manifest"]

\* One chrome.action call of branch st applied to what the button shows.
applyCall(a, st, call) ==
  IF call = "setBadgeText" THEN [a EXCEPT !.text = BadgeText(st)]
  ELSE IF call = "setBadgeBackgroundColor" THEN [a EXCEPT !.color = BadgeColor(st)]
  ELSE IF call = "setTitle" THEN [a EXCEPT !.title = Title(st)]
  ELSE a

\* updateActionIcon() up to its first await: the timer is cleared, the branch is
\* taken on iconState as it is now (st) and setIcon is called.
updateActionIconStart(st, ts) ==
  /\ nUpdates' = nUpdates + 1
  /\ errorTimeout' = clearTimeout(ts)
  /\ updates' = updates \cup {[id |-> nUpdates + 1, branch |-> st, done |-> 1]}
  /\ action' = applyCall(action, st, Calls(st)[1])

\* The service worker starts: iconState is 'idle' and line 66 calls updateActionIcon().
IconIdle ==
  /\ action = ManifestAction
  /\ updates = {[id |-> 1, branch |-> "idle", done |-> 1]}
  /\ nUpdates = 1

\* A message handler or a shortcut command assigns iconState and calls
\* updateActionIcon() (lines 233-236, 240-250, 288, 294, 300-301, 371, 379).
AssignIconState(st) ==
  /\ nUpdates < MaxUpdates
  /\ iconState' = st
  /\ updateActionIconStart(st, errorTimeout)
  /\ UNCHANGED notIcon

\* The chrome.action call that update u awaits has returned: u makes its next
\* call, or, past its last one, arms the timer of the 'inactive' branch and ends.
UpdateResumes(u) ==
  /\ u \in updates
  /\ IF u.done < Len(Calls(u.branch))
     THEN /\ action' = applyCall(action, u.branch, Calls(u.branch)[u.done + 1])
          /\ updates' = (updates \ {u}) \cup {[u EXCEPT !.done = u.done + 1]}
          /\ UNCHANGED errorTimeout
     ELSE /\ updates' = updates \ {u}
          /\ errorTimeout' =
               IF u.branch = "inactive"
               THEN BagOfAll(LAMBDA t : [t EXCEPT !.held = FALSE], errorTimeout)
                      (+) SetToBag({Timer(u.id, TRUE, TRUE, FALSE)})
               ELSE errorTimeout
          /\ UNCHANGED action
  /\ UNCHANGED <<iconState, nUpdates>>
  /\ UNCHANGED notIcon

\* The 2 s timer of the 'inactive' branch fires (lines 47-52).
RevertTimeout(t) ==
  /\ t.armed
  /\ IF iconState = "inactive"
     THEN /\ nUpdates < MaxUpdates
          /\ iconState' = "idle"
          /\ updateActionIconStart("idle", errorTimeout (-) SetToBag({t}))
     ELSE /\ errorTimeout' = errorTimeout (-) SetToBag({t})
          /\ UNCHANGED <<iconState, action, updates, nUpdates>>
  /\ UNCHANGED notIcon

\* ======================================================================
\* Specifications
\* ======================================================================
InitModal ==
  /\ docHosts = <<>>
  /\ modalHost = 0
  /\ shadowRoot = 0
  /\ currentComposeWindow = 0
  /\ ui = [h \in Hosts |-> NoUI]
  /\ opens = [c \in OpenIds |-> [pc |-> "idle", trig |-> 0]]
  /\ submits = [s \in SubmitIds |-> [pc |-> "idle", session |-> 0, origin |-> 0]]
  /\ nCalls = 0
  /\ focus = OnPage
  /\ lastEvt = NoEvt

\* The service worker after its top-level script ran.
BackgroundIdle ==
  /\ msgs = EmptyBag
  /\ iconState = "idle"
  /\ badge = "idle"
  /\ errorTimeout = EmptyBag
  /\ nMsgs = 0
  /\ bgEvt = NoBgEvt

\* The improve flow after the content script ran: nothing captured, nothing shown.
ImproveIdle ==
  /\ pageSel = "none"
  /\ lastSelectionRange = "none"
  /\ lastInputSelection = FALSE
  /\ capture = NoCapture
  /\ currentSpinner = 0
  /\ improvingBanners = {}
  /\ currentOverlay = 0
  /\ improving = EmptyBag
  /\ finishing = 0
  /\ nImp = 0
  /\ impEvt = NoImpEvt

\* No setSettings call yet.
SettingsQuiet ==
  /\ setCalls = EmptyBag
  /\ nSets = 0
  /\ settingsEvt = NoSettingsEvt

\* No banner shown yet.
BannerIdle ==
  /\ bannerContainer = [r \in Regions |-> 0]
  /\ banners = <<>>
  /\ bannerEvt = NoBannerEvt

\* An empty compose region, no draft appended.
DraftIdle ==
  /\ regionText = <<>>
  /\ caret = 0
  /\ draftEvt = NoDraftEvt

\* The default template's shape, no prompt built.
PromptIdle ==
  /\ template = <<"x", BulletToken>>
  /\ prompt = <<>>
  /\ promptEvt = NoPromptEvt

\* Nothing selected, no modal opened.
PrefillIdle ==
  /\ selection = <<>>
  /\ talkingPoints = <<>>
  /\ prefillEvt = NoPrefillEvt

TextIdle == DraftIdle /\ PromptIdle /\ PrefillIdle

\* Nothing stored yet, no setSettings call.
SettingsIdle == store = Settings({}, "s") /\ SettingsQuiet

\* The injector after the top-level script ran (cleanupAllButtons() at line 1579,
\* the start-up timer armed), in a document that shows no compose region yet.
InjectLoaded ==
  /\ present = {}
  /\ marker = CleanDom.m
  /\ replyButtons = CleanDom.rb
  /\ improveButtons = CleanDom.ib
  /\ pending = <<>>
  /\ startupPending = TRUE
  /\ hashTimers = 0
  /\ observing = FALSE
  /\ injEvt = NoInjEvt

\* The containers the page will show: region r lies in the container named by
\* the first region of it.
Layouts ==
  {f \in [ComposeIds -> ComposeIds] : \A r \in ComposeIds : f[r] <= r /\ f[f[r]] = f[r]}

InitInject ==
  /\ InitModal
  /\ clipboard = 0
  /\ BackgroundIdle
  /\ ImproveIdle
  /\ SettingsIdle
  /\ TextIdle
  /\ BannerIdle
  /\ DomIdle
  /\ IconIdle
  /\ rootOf \in Layouts
  /\ rootType \in {t \in [ComposeIds -> RootTypes] :
                     \A k \in ComposeIds : rootOf[k] # k => t[k] = "outside"}
  /\ InjectLoaded

InjectIdle ==
  /\ rootOf = [r \in ComposeIds |-> r]
  /\ rootType = [k \in ComposeIds |-> "send"]
  /\ InjectLoaded

\* ---- the modal controller
Init ==
  /\ InitModal /\ clipboard = 0 /\ InjectIdle /\ BackgroundIdle /\ ImproveIdle /\ SettingsIdle
  /\ TextIdle
  /\ BannerIdle
  /\ DomIdle
  /\ IconIdle

Next ==
  \/ \E r \in Regions : ClickReplyButton(r)
  \/ \E r \in Regions : TriggerGenerate(r)
  \/ \E c \in OpenIds, ok \in BOOLEAN : OpenSettingsResponse(c, ok)
  \/ \E c \in OpenIds, ok \in BOOLEAN : OpenFetchResponse(c, ok)
  \/ ClickCancel
  \/ PressEscape
  \/ ClickBackdrop
  \/ ClickInsideModal
  \/ ClickGenerate
  \/ PressChord
  \/ \E s \in SubmitIds, ok \in BOOLEAN : SubmitSettingsResponse(s, ok)
  \/ \E s \in SubmitIds, out \in {"throw", "fail", "nodraft", "draft"}, domThrows \in BOOLEAN :
       SubmitGenerateResponse(s, out, domThrows)

Spec == Init /\ [][Next]_vars

\* ---- the modal controller with the Tab key
NextFocus ==
  \/ Next
  \/ \E shift \in BOOLEAN : PressTab(shift)

SpecFocus == Init /\ [][NextFocus]_vars

\* ---- the modal controller with openModal also called directly
NextExport ==
  \/ Next
  \/ CallOpenModal

SpecExport == Init /\ [][NextExport]_vars

\* ---- the injector
NextInject ==
  \/ StartupTimer
  \/ HashChange
  \/ HashTimer
  \/ ObserverCallback
  \/ \E S \in SUBSET ComposeIds, first \in ComposeIds : InsertNodes(S, first)
  \/ \E k \in ComposeIds : InsertContainer(k)
  \/ \E r \in ComposeIds : RemoveRegion(r)

SpecInject == InitInject /\ [][NextInject]_vars

\* The same with the scheduling of the page's event loop: a timer that is due
\* fires (between two deliveries of mutation records at the latest), a queued
\* mutation record is delivered.  What the host page does (insertions,
\* removals, navigation) is under no obligation.
SpecInjectFair ==
  /\ InitInject /\ [][NextInject]_vars
  /\ SF_vars(StartupTimer) /\ SF_vars(HashTimer) /\ WF_vars(ObserverCallback)

\* ---- the background service worker
InitBackground ==
  /\ InitModal /\ clipboard = 0 /\ InjectIdle /\ BackgroundIdle /\ ImproveIdle /\ SettingsIdle
  /\ TextIdle
  /\ BannerIdle
  /\ DomIdle
  /\ IconIdle

NextBackground ==
  \/ \E t \in MsgTypes, a \in IconStates \cup {"bogus", "gmail", "generic", "none"} : Deliver(t, a)
  \/ \E m \in BagToSet(msgs) : ImproveIconShown(m)
  \/ \E m \in BagToSet(msgs) : IconAcknowledged(m)
  \/ \E t \in BagToSet(errorTimeout) : InactiveTimeout(t)
  \/ \E m \in BagToSet(msgs), apiKey, promptTpl, improveTpl, genericTpl, effort \in BOOLEAN :
       SettingsResolved(m, apiKey, promptTpl, improveTpl, genericTpl, effort)
  \/ \E m \in BagToSet(msgs), o \in ApiOutcomes(TRUE) : ApiResponse(m, o)

SpecBackground == InitBackground /\ [][NextBackground]_vars

\* ---- the improve-selection flow
InitImprove ==
  /\ InitModal /\ clipboard = 0 /\ InjectIdle /\ BackgroundIdle /\ ImproveIdle /\ SettingsIdle
  /\ TextIdle
  /\ BannerIdle
  /\ DomIdle
  /\ IconIdle

NextImprove ==
  \/ \E k \in SelKinds : Select(k)
  \/ \E hasRange \in BOOLEAN : TriggerImprove(hasRange)
  \/ MousedownImprove
  \/ \E req \in BagToSet(improving), out \in {"text", "empty", "error", "lastError"},
        hasCompose, selRange, execOk, inputOk \in BOOLEAN :
       ImproveResponse(req, out, hasCompose, selRange, execOk, inputOk)
  \/ FinishResult
  \/ \E ok \in BOOLEAN : ClickOverlayCopy(ok)
  \/ ClickOutsideOverlay

SpecImprove == InitImprove /\ [][NextImprove]_vars

\* ---- the improve flow with the banners' close buttons
NextFeedback ==
  \/ NextImprove
  \/ \E f \in TextIds : CloseImprovingBanner(f)

SpecFeedback == InitImprove /\ [][NextFeedback]_vars

\* ---- the settings store
InitSettings ==
  /\ InitModal /\ clipboard = 0 /\ InjectIdle /\ BackgroundIdle /\ ImproveIdle
  /\ TextIdle
  /\ BannerIdle
  /\ DomIdle
  /\ IconIdle
  /\ store \in InitialStores
  /\ SettingsQuiet

NextSettings ==
  \/ \E readThrows \in BOOLEAN : GetSettings(readThrows)
  \/ \E partial \in Partials, valid, readThrows \in BOOLEAN : SetSettings(partial, valid, readThrows)
  \/ \E call \in BagToSet(setCalls), writeThrows \in BOOLEAN : StorageSet(call, writeThrows)

SpecSettings == InitSettings /\ [][NextSettings]_vars

\* ---- appendDraft on a compose region with some text and the caret somewhere in it
InitDraft ==
  /\ InitModal /\ clipboard = 0 /\ InjectIdle /\ BackgroundIdle /\ ImproveIdle /\ SettingsIdle
  /\ BannerIdle
  /\ DomIdle
  /\ IconIdle
  /\ regionText \in Texts(MaxRegionText)
  /\ caret \in 0..Len(regionText)
  /\ draftEvt = NoDraftEvt
  /\ PromptIdle
  /\ PrefillIdle

NextDraft ==
  \/ \E d \in Texts(MaxDraft), editable, execOk \in BOOLEAN : AppendDraft(d, editable, execOk)
  \/ \E k \in 0..(MaxRegionText + MaxDraft + 1) : PlaceCaret(k)

SpecDraft == InitDraft /\ [][NextDraft]_vars

\* ---- createPrompt on a stored template
InitPrompt ==
  /\ InitModal /\ clipboard = 0 /\ InjectIdle /\ BackgroundIdle /\ ImproveIdle /\ SettingsIdle
  /\ BannerIdle
  /\ DomIdle
  /\ IconIdle
  /\ DraftIdle
  /\ template \in PieceTexts(MaxTemplate)
  /\ prompt = <<>>
  /\ promptEvt = NoPromptEvt
  /\ PrefillIdle

NextPrompt ==
  \/ \E a, b \in PieceTexts(MaxArg) : CreatePrompt(a, b)
  \/ \E a, b \in PieceTexts(MaxArg) : CreatePromptAgain(a, b)

SpecPrompt == InitPrompt /\ [][NextPrompt]_vars

\* ---- the prefill of the modal from the page selection
InitPrefill ==
  /\ InitModal /\ clipboard = 0 /\ InjectIdle /\ BackgroundIdle /\ ImproveIdle /\ SettingsIdle
  /\ BannerIdle
  /\ DomIdle
  /\ IconIdle
  /\ DraftIdle
  /\ PromptIdle
  /\ selection \in Selections
  /\ talkingPoints = <<>>
  /\ prefillEvt = NoPrefillEvt

NextPrefill ==
  \/ \E t \in Selections : SelectText(t)
  \/ Prefill

SpecPrefill == InitPrefill /\ [][NextPrefill]_vars

\* ---- banners
InitBanner ==
  /\ InitModal /\ clipboard = 0 /\ InjectIdle /\ BackgroundIdle /\ ImproveIdle /\ SettingsIdle
  /\ TextIdle
  /\ BannerIdle
  /\ DomIdle
  /\ IconIdle

NextBanner ==
  \/ \E r \in Regions \cup {0}, hasMessage \in BOOLEAN, timeout \in Timeouts :
       ShowBanner(r, hasMessage, timeout)
  \/ \E b \in 1..MaxBanners : ClickCloseBanner(b)
  \/ \E b \in 1..MaxBanners : BannerTimeout(b)

SpecBanner == InitBanner /\ [][NextBanner]_vars

\* ---- compose-window discovery
InitCompose ==
  /\ InitModal /\ clipboard = 0 /\ InjectIdle /\ BackgroundIdle /\ ImproveIdle /\ SettingsIdle
  /\ TextIdle
  /\ BannerIdle
  /\ DomIdle
  /\ IconIdle

NextCompose ==
  \/ \E i \in 1..(MaxElements + 1), e \in ElementKinds : AddElement(i, e)
  \/ \E i \in 1..MaxElements : RemoveElement(i)
  \/ CallGetComposeWindows

SpecCompose == InitCompose /\ [][NextCompose]_vars

\* ---- the action icon
InitIcon ==
  /\ InitModal /\ clipboard = 0 /\ InjectIdle /\ BackgroundIdle /\ ImproveIdle /\ SettingsIdle
  /\ TextIdle
  /\ BannerIdle
  /\ DomIdle
  /\ IconIdle

NextIcon ==
  \/ \E st \in IconStates : AssignIconState(st)
  \/ \E u \in updates : UpdateResumes(u)
  \/ \E t \in BagToSet(errorTimeout) : RevertTimeout(t)

SpecIcon == InitIcon /\ [][NextIcon]_vars

\* ======================================================================
\* Claims
\* ======================================================================

\* ------------------------------------------------------------ modal: claims

\* C1: at every reachable state the document holds at most one modal host
\* (element with id ai-modal-host), whatever the interleaving of open requests.
C1_AtMostOneModalHost == Len(docHosts) <= 1

\* C2: while the modal is in Submitting, neither Cancel nor Escape nor a click
\* on the backdrop closes it.
C2_NoCloseWhileSubmitting ==
  ~(lastEvt.act \in {"Cancel", "Escape", "Backdrop"} /\ lastEvt.sub /\ lastEvt.closed)

\* C8: after a failed submission (failed settings lookup, rejected bridge call,
\* success=false, no draft, appendDraft false) the modal of that submission is
\* still in the document, shows the error, hides the spinner and has both
\* actions enabled.
C8_FailedSubmitLeavesModalOpen ==
  lastEvt.act \in {"SubmitFailed", "DraftNotInserted"} =>
    /\ InDoc(lastEvt.session)
    /\ ui[lastEvt.session].error
    /\ ~ui[lastEvt.session].spinner
    /\ ~ui[lastEvt.session].disabled

\* C9: a generate response with a draft (the DOM insertion itself not throwing)
\* inserts the draft into the region that opened the submitting modal, closes the
\* modal with all session state cleared and no host left in the document, and
\* shows an info banner on that same region.
C9_SuccessInsertsClosesAndBanners ==
  lastEvt.act \in {"SubmitSucceeded", "DraftNotInserted"} =>
    /\ lastEvt.ins = lastEvt.origin
    /\ modalHost = 0 /\ shadowRoot = 0 /\ currentComposeWindow = 0
    /\ Len(docHosts) = 0
    /\ lastEvt.bt = "info" /\ lastEvt.ban = lastEvt.origin

\* C10: from entry to Submitting until the response is handled the modal's
\* Generate and Cancel actions are disabled, the chord starts nothing, and no
\* modal session has two generate submissions in flight.
C10_SubmittingDisablesActions ==
  /\ \A s \in SubmitIds :
       InFlight(s) /\ InDoc(submits[s].session) => ui[submits[s].session].disabled
  /\ ~(lastEvt.act = "Chord" /\ lastEvt.sub)
  /\ \A h \in Hosts : Cardinality({s \in SubmitIds : InFlight(s) /\ submits[s].session = h}) <= 1

\* C11: from Open (not Submitting), each of Cancel, Escape and a click on the
\* backdrop itself closes the modal the user acted on and starts no submission;
\* a click inside the content box closes nothing.
C11_UserCloseClosesWithoutGenerate ==
  [][ /\ (lastEvt'.act \in {"Cancel", "Escape", "Backdrop"} /\ ~lastEvt'.sub) =>
           /\ \A i \in 1..Len(docHosts') : docHosts'[i] # lastEvt'.session
           /\ submits' = submits
      /\ lastEvt'.act = "ClickInside" =>
           /\ docHosts' = docHosts
           /\ submits' = submits ]_vars

\* C12: openModal called while a modal host is in the document is rejected and
\* changes nothing: no host is created, no settings lookup is pending for it,
\* and the session's references and user interface are as before.
C12_SecondOpenIsNoOp ==
  [][ (lastEvt'.act \in {"OpenRejected", "ClickReply", "TriggerGenerate"} /\ Len(docHosts) > 0) =>
         /\ lastEvt'.act = "OpenRejected"
         /\ UNCHANGED <<docHosts, modalHost, shadowRoot, currentComposeWindow, ui, opens, submits>> ]_vars

C12_Witness ==
  /\ lastEvt.act = "OpenRejected"
  /\ TopHost # 0
  /\ currentComposeWindow # 0

\* ------------------------------------------------------------ injector: claims

\* Every region of the document lies in a compose container of its own, one of
\* the shapes getComposeWindows accepts, that holds a Send control or a toolbar
\* row.
WellFormedDoc ==
  /\ \A r \in present : rootType[rootOf[r]] \in {"send", "toolbar", "fallback"}
  /\ \A r1, r2 \in present : r1 # r2 => rootOf[r1] # rootOf[r2]

Occupied(k) == regionsOf(k) \cap present # {}

\* C3: in a document of N compose regions, each under its own compose root with
\* a send control or toolbar, every discovery+injection pass (a first one, one
\* run right after another, one after a cleanup sweep) leaves exactly N sets of
\* controls: one reply and one improve button in each of the N compose roots.
C3_ScanLeavesOneSetPerRegion ==
  (injEvt.act = "Scan" /\ WellFormedDoc) =>
     /\ ~injEvt.threw
     /\ injEvt.injected = Cardinality(present)
     /\ \A k \in ComposeIds :
          /\ replyButtons[k] = (IF Occupied(k) THEN 1 ELSE 0)
          /\ improveButtons[k] = (IF Occupied(k) THEN 1 ELSE 0)

\* C4: no compose root ever holds more than one set of injected controls, under
\* any sequence of start-up scan, observer batches and hashchange re-scans, also
\* when several region nodes resolve to the same compose root.
C4_AtMostOneSetPerRoot ==
  \A k \in ComposeIds : replyButtons[k] <= 1 /\ improveButtons[k] <= 1

\* injectButtons returned true for two regions of one compose root, which holds
\* one set of controls.
C4_Witness ==
  \E r1, r2 \in present :
    /\ r1 # r2
    /\ rootOf[r1] = rootOf[r2]
    /\ injEvt.act = "Scan"
    /\ injEvt.injected >= 2
    /\ replyButtons[rootOf[r1]] = 1
    /\ improveButtons[rootOf[r1]] = 1

\* ------------------------------------------------------------ background: claims

\* What handleMessage did with a failure: one response, success = false.
FailureSurfaced == Len(bgEvt.sent) = 1 /\ ~bgEvt.sent[1].success /\ ~bgEvt.uncaught

\* C5: callOpenAI sends at most two requests per call; a second request is sent
\* only when the first response rejected the request because of the
\* reasoning-effort field, it omits the field, and its failure is surfaced with
\* no further retry; a first response rejected for any other reason is
\* surfaced at once with no retry.
C5_RetryOnlyOnEffortRejection ==
  /\ \A m \in BagToSet(msgs) :
       /\ Len(m.reqs) <= 2
       /\ Len(m.reqs) = 2 => m.first.cause = "effort" /\ ~m.reqs[2]
  /\ Len(bgEvt.reqs) <= 2
  /\ Len(bgEvt.reqs) = 2 => bgEvt.first.cause = "effort" /\ ~bgEvt.reqs[2]
  /\ (Len(bgEvt.reqs) = 2 /\ ~bgEvt.lastOk) => FailureSurfaced
  /\ (bgEvt.first.kind \notin {"none", "ok"} /\ bgEvt.first.cause # "effort") =>
        Len(bgEvt.reqs) = 1 /\ FailureSurfaced

\* C6: every message delivered to the handler (any type, unknown types and
\* messages whose handling raises an exception included) gets exactly one
\* response, which carries a success flag plus either a payload or an error
\* string; a remote API failure yields success = false and no uncaught exception.
C6_OneResponseWithPayloadOrError ==
  bgEvt.act = "Handled" =>
    /\ Len(bgEvt.sent) = 1
    /\ ~bgEvt.uncaught
    /\ bgEvt.sent[1].success => bgEvt.sent[1].payload # "none" /\ bgEvt.sent[1].error = "none"
    /\ ~bgEvt.sent[1].success => bgEvt.sent[1].error # "none" /\ bgEvt.sent[1].payload = "none"
    /\ (bgEvt.reqs # <<>> /\ ~bgEvt.lastOk) => ~bgEvt.sent[1].success

\* C6, amended: every message delivered to the handler gets exactly one
\* response; a failure response carries success = false and an error string; a
\* success response carries success = true and its payload (settings, draft or
\* text), except the acknowledgement of a valid SET_ICON_STATE message, which
\* carries the flag alone; a remote API failure yields success = false and no
\* uncaught exception.
C6_OneResponseAckWithoutPayload ==
  bgEvt.act = "Handled" =>
    /\ Len(bgEvt.sent) = 1
    /\ ~bgEvt.uncaught
    /\ bgEvt.sent[1].success =>
         /\ bgEvt.sent[1].error = "none"
         /\ bgEvt.sent[1].payload = "none" <=> bgEvt.type = "SET_ICON_STATE"
    /\ ~bgEvt.sent[1].success => bgEvt.sent[1].error # "none" /\ bgEvt.sent[1].payload = "none"
    /\ (bgEvt.reqs # <<>> /\ ~bgEvt.lastOk) => ~bgEvt.sent[1].success

\* An IMPROVE_TEXT message whose handling raised an exception (the missing
\* DEFAULT_GENERIC_IMPROVE_PROMPT) was answered by the boundary catch.
C6_Witness ==
  /\ bgEvt.act = "Handled"
  /\ bgEvt.type = "IMPROVE_TEXT"
  /\ bgEvt.reqs = <<>>
  /\ bgEvt.sent = <<Resp(FALSE, "none", "Error: exception")>>

\* A handleMessage call of a generate or improve request that has not sent its
\* response yet.
CallInFlight == \E m \in BagToSet(msgs) : m.type \in {"generate", "IMPROVE_TEXT"}

\* C15: whenever at least one improve or generate call is in flight in the
\* background process, from the receipt of the request until its response is
\* sent, the icon state is loading.
C15_LoadingWhileInFlight == CallInFlight => iconState = "loading"

\* The step handles a generate or improve request to its end with a failure:
\* a response with success = false, or an exception that left the handler.
FailedAttempt ==
  /\ BagCardinality(msgs') < BagCardinality(msgs)
  /\ bgEvt'.act = "Handled"
  /\ bgEvt'.type \in {"generate", "IMPROVE_TEXT"}
  /\ \/ bgEvt'.uncaught
     \/ \E i \in 1..Len(bgEvt'.sent) : ~bgEvt'.sent[i].success

\* C16: every failed generate or improve attempt sets the icon state to error,
\* and the icon state then stays error until a message sets another state (the
\* timer of 'inactive' never replaces it).
C16_FailureSetsIconError ==
  [][ /\ FailedAttempt => iconState' = "error"
      /\ (iconState = "error" /\ msgs' = msgs /\ nMsgs' = nMsgs) => iconState' = "error" ]_vars

\* C17 (safety half): the revert of the 'inactive' timer never overwrites a
\* state that was set after the transition the timer belongs to, a new
\* 'inactive' included.
C17_RevertNeverOverwritesNewerState ==
  ~(bgEvt.act = "TimerFired" /\ bgEvt.stale /\ bgEvt.reverted)

\* The setting an error message names.
ErrNames(e) ==
  IF e = "API Key is missing" THEN {"apiKey"}
  ELSE IF e = "Improve text prompt template is missing" THEN {"improvePromptTemplate"}
  ELSE {}

\* C21: a generate or improve request handled with the credential or the
\* flow's prompt template empty is answered with one response, success = false,
\* whose error names a missing setting, and no request goes to the remote API.
C21_MissingSettingAbortsBeforeRequest ==
  (bgEvt.act = "Handled" /\ bgEvt.type \in {"generate", "IMPROVE_TEXT"} /\ bgEvt.missing # {}) =>
     /\ Len(bgEvt.sent) = 1
     /\ ~bgEvt.sent[1].success
     /\ ErrNames(bgEvt.sent[1].error) \cap bgEvt.missing # {}
     /\ bgEvt.reqs = <<>>

\* ------------------------------------------------------------ improve flow: claims

\* C7: when every insertion strategy fails for a text that was received (the
\* in-place insert command reports failure, there is no input or textarea
\* target, the captured selection is not editable), the text is on the system
\* clipboard and a banner says so; the received text is never silently dropped.
C7_FailedInsertionGoesToClipboard ==
  (impEvt.act = "Result" /\ impEvt.received /\ impEvt.allFailed) =>
     /\ clipboard = impEvt.text
     /\ impEvt.shown = "banner-clipboard"

\* The compose root of region r holds the controls.
HasControls(r) ==
  marker[rootOf[r]] /\ replyButtons[rootOf[r]] >= 1 /\ improveButtons[rootOf[r]] >= 1

\* C18: every compose region that is in the document while the watcher runs,
\* in a container with a Send control or a toolbar row, eventually has its
\* controls (or has left the document): what a batch skipped, a later batch handles.
C18_InsertedRegionEventuallyHasControls ==
  \A r \in ComposeIds :
    (observing /\ r \in present /\ rootType[rootOf[r]] \in {"send", "toolbar"})
      ~> (r \notin present \/ HasControls(r))

\* C19: in one mutation batch the watcher makes at most one successful
\* injectButtons call and examines no record of the batch after it.
C19_OneInjectionPerBatch ==
  injEvt.act = "Batch" => injEvt.injected <= 1 /\ injEvt.after = 0

C19_Witness ==
  /\ injEvt.act = "Batch"
  /\ injEvt.injected = 1
  /\ injEvt.examined < injEvt.queued

\* C20: injectButtons returns a boolean and never throws for a region the
\* locator accepts: true only if the region's compose root holds the controls
\* afterwards, false with the document unchanged when no injection point is found;
\* no scan and no batch ends in an exception.
C20_InjectButtonsNeverThrows ==
  /\ injEvt.act \in {"Scan", "Batch"} => ~injEvt.threw
  /\ \A r \in present : inComposeArea(r) =>
       LET one == injectButtons(Dom, r) IN
         /\ one.res \in {"true", "false"}
         /\ one.res = "true" => one.d.m[rootOf[r]] /\ one.d.rb[rootOf[r]] >= 1 /\ one.d.ib[rootOf[r]] >= 1
         /\ one.res = "false" => one.d = Dom

\* ------------------------------------------------------------ settings: claims

\* C13: every per-flow settings field the background process reads (the three
\* models, the three prompt templates, the reasoning efforts) is defined in the
\* result of getSettings, whatever the stored record lacks.
C13_EveryReadFieldHasDefault ==
  settingsEvt.act = "get" => PerFlowKeys \subseteq DOMAIN settingsEvt.result

C22_TabStaysInsideModal ==
  lastEvt.act = "Tab" =>
    LET h == lastEvt.session
        first == CHOOSE p \in Tabbable(ui, h) : \A q \in Tabbable(ui, h) : p <= q
        last == CHOOSE p \in Tabbable(ui, h) : \A q \in Tabbable(ui, h) : q <= p
    IN /\ focus.host = h
       /\ (~lastEvt.shift /\ lastEvt.from = last) => focus.pos = first
       /\ (lastEvt.shift /\ lastEvt.from = first) => focus.pos = last

\* ---------------------------------------------------------------- C23
\* C23: appendDraft(region, d) on an editable region whose text is c, with a
\* non-empty d, returns true and leaves the region's text equal to c + s + d, where
\* s is one space if c has non-white-space content and does not end in white
\* space, and empty otherwise.
C23_DraftAppendedAfterContent ==
  (draftEvt.act = "appendDraft" /\ draftEvt.editable /\ draftEvt.draft # <<>>) =>
    LET c == draftEvt.before
        s == IF trim(c) # <<>> /\ c[Len(c)] \notin WhiteSpace THEN <<" ">> ELSE <<>>
    IN /\ draftEvt.returned
       /\ regionText = c \o s \o draftEvt.draft

\* ---------------------------------------------------------------- C24
\* The template t with every [Bullet_points] token replaced by the text a and
\* every [Email_context] token by the text b, each exactly as given.
RECURSIVE Substituted(_, _, _)
Substituted(t, a, b) ==
  IF t = <<>> THEN <<>>
  ELSE (IF Head(t) = BulletToken THEN a ELSE IF Head(t) = EmailToken THEN b ELSE <<Head(t)>>)
       \o Substituted(Tail(t), a, b)

HasPlaceholder(t) == \E i \in 1..Len(t) : t[i] \in {BulletToken, EmailToken}

\* C24: createPrompt(template, a, b) returns the template with every
\* [Bullet_points] token replaced by exactly a and every [Email_context] token by
\* exactly b, whatever a and b contain; applied again to a result without
\* placeholder tokens it returns that result unchanged.
C24_PlaceholdersSubstitutedVerbatim ==
  /\ promptEvt.act = "createPrompt" => prompt = Substituted(promptEvt.from, promptEvt.a, promptEvt.b)
  /\ (promptEvt.act = "again" /\ ~HasPlaceholder(promptEvt.from)) => prompt = promptEvt.from

\* ---------------------------------------------------------------- C25
\* C25: when the modal opens with a non-empty selection, the talking-points field
\* holds the HTML-decoded selection without leading and trailing white space (the
\* trimmed form of the decoded text); with no selection the field is empty.
C25_PrefillIsTrimmedDecodedSelection ==
  prefillEvt.act = "opened" =>
    talkingPoints = IF prefillEvt.selection # <<>> THEN trim(htmlDecode(prefillEvt.selection))
                    ELSE <<>>

\* ---------------------------------------------------------------- C26
\* C26: every improve request started from inside a Gmail compose region, by the
\* shortcut or by the injected improve button, carries the source tag gmail, and
\* its result goes into that compose region, never into an overlay or an alert.
C26_ComposeRequestsTaggedGmail ==
  /\ \A req \in BagToSet(improving) : req.origin = "compose" => req.source = "gmail"
  /\ (impEvt.act = "Result" /\ impEvt.origin = "compose") => impEvt.shown \notin {"overlay", "alert"}

\* ---------------------------------------------------------------- C27
\* C27: a trigger of the improve flow with no selected text (empty after
\* trimming) sends no IMPROVE_TEXT request and puts up no spinner; on the shortcut
\* path it sets the icon state to inactive.
C27_NoSelectionNoRequest ==
  [][(impEvt'.act \in {"Triggered", "NothingSelected"} /\ pageSel = "none") =>
       /\ improving' = improving
       /\ nImp' = nImp
       /\ ~(currentSpinner' # 0 /\ currentSpinner = 0)
       /\ impEvt'.via = "shortcut" => (impEvt'.icon = "inactive" /\ currentSpinner' = 0)]_vars

C27_Witness ==
  /\ impEvt.act = "NothingSelected"
  /\ impEvt.via = "shortcut"
  /\ impEvt.icon = "inactive"
  /\ pageSel = "none"
  /\ improving # EmptyBag

\* ---------------------------------------------------------------- C28
\* C28: getSettings never throws: it returns the fixed defaults overridden field
\* by field by the stored record, and exactly the defaults when nothing is stored
\* (the record absent, undefined or null) or when the storage read fails.
C28_GetSettingsDefaultsUnderStore ==
  settingsEvt.act = "get" =>
    LET r == settingsEvt.result IN
      IF settingsEvt.ok
      THEN /\ DOMAIN r = DefaultKeys \cup DOMAIN store
           /\ \A f \in DOMAIN r : r[f] = IF f \in DOMAIN store THEN store[f] ELSE "d"
           /\ DOMAIN store = {} => r = DEFAULT_SETTINGS
      ELSE r = DEFAULT_SETTINGS

C28_Witness ==
  /\ settingsEvt.act = "get"
  /\ settingsEvt.ok
  /\ "apiKey" \in DOMAIN store
  /\ "improvePromptTemplate" \notin DOMAIN store
  /\ settingsEvt.result["apiKey"] = store["apiKey"]
  /\ settingsEvt.result["improvePromptTemplate"] = "d"

\* ---------------------------------------------------------------- C29
\* C29: setSettings(partial) with an object argument writes the current settings
\* overridden by partial (the fields partial names take the new value, every other
\* field keeps its current value) and returns true; with a null or non-object
\* argument it returns false without a storage write; when the storage write
\* fails it returns false.
C29_SetSettingsMergesIntoCurrent ==
  [][/\ settingsEvt'.act = "set" =>
          /\ settingsEvt'.ok
          /\ DOMAIN store \cup settingsEvt'.partial \subseteq DOMAIN store'
          /\ \A f \in DOMAIN store' :
               store'[f] = IF f \in settingsEvt'.partial THEN "u"
                           ELSE IF f \in DOMAIN store THEN store[f] ELSE "d"
     /\ settingsEvt'.act = "setInvalid" =>
          (~settingsEvt'.ok /\ setCalls' = setCalls /\ store' = store)
     /\ settingsEvt'.act = "setFailed" => (~settingsEvt'.ok /\ store' = store)]_vars

\* ---------------------------------------------------------------- C30
Shown(b) == b \in 1..Len(banners) /\ banners[b].shown

\* C30: after any sequence of showBanner calls and banner closings (manual close
\* or auto-dismiss timer) a region holds a banner container exactly when one of
\* its banners is still shown; closing a banner that is already closed (its timer
\* firing after a manual close) changes nothing; a banner created with timeout
\* 0 is never removed by a timer.
C30_ContainerIffBannerShown ==
  /\ [](\A r \in Regions :
          bannerContainer[r] # 0 <=> \E b \in 1..Len(banners) : banners[b].region = r /\ Shown(b))
  /\ [][(bannerEvt'.act = "timer" /\ ~Shown(bannerEvt'.banner)) =>
          /\ bannerContainer' = bannerContainer
          /\ \A b \in 1..Len(banners) : banners'[b].shown = banners[b].shown]_vars
  /\ [][\A b \in 1..Len(banners) :
          (banners[b].timeout = 0 /\ Shown(b) /\ bannerEvt'.act = "timer") => banners'[b].shown]_vars

C30_Witness ==
  /\ bannerEvt.act = "timer"
  /\ ~bannerEvt.wasShown
  /\ \E b \in 1..Len(banners) :
        /\ banners[b].timeout = 0
        /\ Shown(b)
        /\ bannerContainer[banners[b].region] # 0
  /\ \E r \in Regions : bannerContainer[r] = 0 /\ \E b \in 1..Len(banners) : banners[b].region = r

Wanted(e) ==
  /\ e.sel = "specific"
  /\ e.w > 50 /\ e.h > 30 /\ e.display = "block"
  /\ e.area

C33_ResultUsesOwnCaptureOnce ==
  (impEvt.act = "Result" /\ impEvt.how \in {"input", "range"}) =>
    (impEvt.captureBy = impEvt.text /\ impEvt.uses <= 1)
\* ---------------------------------------------------------------- C34
\* C34: a generate response is applied only within the modal session that issued
\* the request: when that session was closed before the response arrives, the late
\* response inserts no text into the compose region of another session and closes
\* no modal session opened later.
C34_LateResponseTouchesNoOtherSession ==
  (lastEvt.act \in {"SubmitSucceeded", "DraftNotInserted", "SubmitFailed"} /\ lastEvt.late) =>
    (lastEvt.ins = 0 /\ lastEvt.closedHost = 0)
\* ---------------------------------------------------------------- C35
\* C35: once the background has answered the IMPROVE_TEXT request of an improve
\* flow, with a success or with a failure, the flow's loading feedback is removed:
\* the spinner of the shortcut path, the 'Improving text...' banner of the button
\* path.
C35_AnswerRemovesLoadingFeedback ==
  impEvt.act \in {"Result", "ResultIgnored", "ErrorDropped"} =>
    (currentSpinner # impEvt.text /\ impEvt.text \notin improvingBanners)
\* ---------------------------------------------------------------- C37
\* C37: after all pending updateActionIcon calls have completed, the badge text
\* and the title shown on the action icon are those of the current iconState,
\* for every interleaving of overlapping icon updates.
C37_QuiescentIconShowsIconState ==
  updates = {} => (action.text = BadgeText(iconState) /\ action.title = Title(iconState))
\* ---------------------------------------------------------------- C36
\* C36: once the background has sent its response to an IMPROVE_TEXT message and
\* no other call is in flight, iconState is not loading: idle after a success,
\* error after any failure, a failure raised as an exception in the handler
\* included.
C36_ImproveResponseSettlesIcon ==
  (bgEvt.act = "Handled" /\ bgEvt.type = "IMPROVE_TEXT" /\ msgs = EmptyBag) =>
    iconState = (IF \E i \in 1..Len(bgEvt.sent) : bgEvt.sent[i].success
                 THEN "idle" ELSE "error")
\* ---------------------------------------------------------------- C38
\* C38: whenever the session state is empty (modalHost is null) and no openModal
\* call is in progress, no modal host element remains in the document (a host
\* that remains makes openModal reject every later request).
C38_EmptySessionLeavesNoHost ==
  (modalHost = 0 /\ \A c \in OpenIds : opens[c].pc = "idle") => Len(docHosts) = 0
\* ---------------------------------------------------------------- C39
\* C39: when two setSettings calls that name different fields overlap (each
\* reads the store before the other has written), after both have returned true
\* the store contains the fields written by both calls.  The step is the write of
\* the second call, which follows the write of the first at once: the second call
\* has been suspended at its write since before the first one wrote.
C39_OverlappingWritesBothKept ==
  [][(/\ settingsEvt.act = "set" /\ settingsEvt'.act = "set"
      /\ settingsEvt.partial # {} /\ settingsEvt'.partial # {}
      /\ settingsEvt.partial \cap settingsEvt'.partial = {})
     => \A f \in settingsEvt.partial \cup settingsEvt'.partial :
          f \in DOMAIN store' /\ store'[f] = "u"]_vars
\* ---------------------------------------------------------------- C40
\* C40: no message sent from the background process to the in-page agent
\* contains the API credential.
C40_NoResponseCarriesCredential ==
  bgEvt.act = "Handled" =>
    \A i \in 1..Len(bgEvt.sent) : ~carriesCredential(bgEvt.sent[i], bgEvt.missing)
====
